---- MODULE Spec2Model ----
(***************************************************************************)
(* WordPress MCP server: the site registry (SiteStorage / SiteManager),    *)
(* the tool-definition registry, the tool-handler table and the CallTool / *)
(* ListTools dispatch of WordPressMcpServer.                               *)
(*                                                                         *)
(* JavaScript values are modelled as follows.  A string-valued property is *)
(* a TLA+ string, `Undefined` standing for an absent property.  A url is a *)
(* sequence of characters, so that url.replace(/\/$/, '') is computed on   *)
(* the characters; `UndefinedUrl` stands for an absent url.  A nullable    *)
(* record (the result of Array.find(...) || null) is a sequence of zero or *)
(* one records.                                                            *)
(***************************************************************************)
EXTENDS Integers, Sequences, FiniteSets, TLC

VARIABLES
  sites,          \* SiteStorage.config.sites (in memory)
  activeSiteId,   \* SiteStorage.config.activeSiteId (in memory)
  file,           \* the configuration file written by saveConfig
  now,            \* the wall clock read by new Date()
  nextUuid,       \* number of ids uuidv4() has handed out
  last,           \* outcome of the last registry call (observation)
  pc,             \* how far WordPressMcpServer.renderInit has come
  toolDefinitions,   \* WordPressMcpServer.toolDefinitions (descriptor names)
  toolHandlers,      \* WordPressMcpServer.toolHandlers (tool name -> module)
  callToolHandler,   \* the request handler set for CallToolRequestSchema
  listToolsHandler,  \* the request handler set for ListToolsRequestSchema
  resp,           \* response to the last request (observation)
  sessions,       \* SSE session id -> the configuration its SiteStorage holds
  proc,           \* the node process: its state, its servers and the SSE session map
  inflight,       \* one session: the requests delivered, those awaiting their backend, the responses sent
  http,           \* HttpServerTransport: its pending-request table and the /mcp requests
  client,         \* a WordPressClient and the last request it has sent
  flight          \* the registry calls suspended at await validateCredentials

storeVars == <<sites, activeSiteId, file, now, nextUuid, sessions, proc, inflight,
              http, client, flight>>
serverVars == <<pc, toolDefinitions, toolHandlers, callToolHandler, listToolsHandler>>
vars == <<sites, activeSiteId, file, now, nextUuid, last, pc, toolDefinitions,
          toolHandlers, callToolHandler, listToolsHandler, resp, sessions,
          proc, inflight, http, client, flight>>

-----------------------------------------------------------------------------
(* Bounds *)

MaxSites == 2     \* stored records
MaxClock == 4     \* clock readings: one per registry call

-----------------------------------------------------------------------------
(* JavaScript values *)

Undefined == "undefined"
UndefinedUrl == <<"undefined">>
Null == <<>>

Falsy(v) == v = Undefined \/ v = ""
FalsyUrl(u) == u = UndefinedUrl \/ u = <<>>

Names == {"", "A", "B"}
Urls == {<<>>, <<"a">>, <<"a", "/">>, <<"A">>}
CallerIds == {"x"}

MinOf(S) == CHOOSE i \in S : \A j \in S : i <= j

\* Array.prototype.findIndex, 0 standing for -1; hit[i] is the callback's
\* result on the i-th element
FindIndex(hit) ==
  LET I == {i \in DOMAIN hit : hit[i]}
  IN IF I = {} THEN 0 ELSE MinOf(I)

\* Array.prototype.find(...) || null
Find(seq, hit) ==
  LET i == FindIndex(hit)
  IN IF i = 0 THEN Null ELSE <<seq[i]>>

\* Array.prototype.splice(i, 1)
Splice(seq, i) == [j \in 1..(Len(seq) - 1) |-> IF j < i THEN seq[j] ELSE seq[j + 1]]

uuidv4(n) == "u" \o ToString(n + 1)

-----------------------------------------------------------------------------
(* SiteStorage lookups *)

\* a comparison of the urls as given (a variant of NormalizeUrl)
NormalizeUrlKeepsSlash(url) == url

\* url.replace(/\/$/, '')
NormalizeUrl(url) ==
  IF Len(url) > 0 /\ url[Len(url)] = "/" THEN SubSeq(url, 1, Len(url) - 1) ELSE url

getSiteById(ss, id) == Find(ss, [i \in DOMAIN ss |-> ss[i].id = id])

getSiteByName(ss, name) == Find(ss, [i \in DOMAIN ss |-> ss[i].name = name])

getSiteByUrl(ss, url) ==
  Find(ss, [i \in DOMAIN ss |-> NormalizeUrl(ss[i].url) = NormalizeUrl(url)])

getActiveSite(ss, active) ==
  IF Falsy(active) THEN Null ELSE getSiteById(ss, active)

-----------------------------------------------------------------------------
(* The store: the in-memory configuration, its file, the clock and the id   *)
(* source, as one value the registry operations map to a new one.           *)

Store == [sites |-> sites, activeSiteId |-> activeSiteId, file |-> file,
          now |-> now, uuid |-> nextUuid]

\* An operation that throws (or returns false) before changing anything
Throw(st, err) == [st |-> st, err |-> err, ret |-> Null]

\* a write of the sites array alone (a variant of saveConfig)
saveConfigSitesOnly(st, writeOk) ==
  IF writeOk THEN [st EXCEPT !.file.sites = st.sites] ELSE st

\* a write that keeps the records the file holds and adds those of the
\* store that the file lacks (a variant of saveConfig)
saveConfigKeepingFile(st, writeOk) ==
  LET held == {st.file.sites[i].id : i \in DOMAIN st.file.sites}
  IN IF writeOk
     THEN [st EXCEPT !.file =
             [sites |-> st.file.sites
                          \o SelectSeq(st.sites, LAMBDA site : site.id \notin held),
              activeSiteId |-> st.activeSiteId]]
     ELSE st

\* fs.writeFileSync(configPath, JSON.stringify(this.config)): the whole
\* configuration is rewritten; writeOk = FALSE is a write that fails.
saveConfig(st, writeOk) ==
  IF writeOk
  THEN [st EXCEPT !.file = [sites |-> st.sites, activeSiteId |-> st.activeSiteId]]
  ELSE st

\* The tail of every mutating method: saveConfig(), then return the value.
SaveAndReturn(st, writeOk, ret) ==
  [st |-> saveConfig(st, writeOk),
   err |-> IF writeOk THEN "ok" ELSE "SaveFailed",
   ret |-> ret]

\* The object literal built by addSite: consumerKey and consumerSecret are
\* not copied, so they read as undefined on the stored record.
NewSite(st, site) ==
  [id |-> IF Falsy(site.id) THEN uuidv4(st.uuid) ELSE site.id,
   name |-> site.name,
   url |-> site.url,
   username |-> site.username,
   applicationPassword |-> site.applicationPassword,
   consumerKey |-> Undefined,
   consumerSecret |-> Undefined,
   createdAt |-> st.now,
   updatedAt |-> st.now]

StorageAddSite(st, site, writeOk) ==
  IF Falsy(site.name) THEN Throw(st, "MissingName")
  ELSE IF FalsyUrl(site.url) THEN Throw(st, "MissingUrl")
  ELSE IF getSiteByName(st.sites, site.name) # Null THEN Throw(st, "DuplicateName")
  ELSE IF getSiteByUrl(st.sites, site.url) # Null THEN Throw(st, "DuplicateUrl")
  ELSE LET newSite == NewSite(st, site)
           pushed == [st EXCEPT !.sites = Append(@, newSite),
                                !.uuid = IF Falsy(site.id) THEN @ + 1 ELSE @]
       IN SaveAndReturn(pushed, writeOk, <<newSite>>)

\* { ...currentSite, ...updates, updatedAt: new Date().toISOString() }
MergeSite(cur, updates, time) ==
  [cur EXCEPT
     !.name = IF updates.name # Undefined THEN updates.name ELSE @,
     !.url = IF updates.url # UndefinedUrl THEN updates.url ELSE @,
     !.username = IF updates.username # Undefined THEN updates.username ELSE @,
     !.applicationPassword =
        IF updates.applicationPassword # Undefined THEN updates.applicationPassword ELSE @,
     !.consumerKey = IF updates.consumerKey # Undefined THEN updates.consumerKey ELSE @,
     !.consumerSecret =
        IF updates.consumerSecret # Undefined THEN updates.consumerSecret ELSE @,
     !.updatedAt = time]

\* updates.name && updates.name !== currentSite.name && getSiteByName(updates.name)
UpdateNameConflict(ss, cur, updates) ==
  /\ ~Falsy(updates.name)
  /\ updates.name # cur.name
  /\ getSiteByName(ss, updates.name) # Null

\* updates.url && updates.url !== currentSite.url && getSiteByUrl(updates.url)
UpdateUrlConflict(ss, cur, updates) ==
  /\ ~FalsyUrl(updates.url)
  /\ updates.url # cur.url
  /\ getSiteByUrl(ss, updates.url) # Null

\* updateSite storing a record under the id when it finds none (a variant of
\* StorageUpdateSite)
StorageUpdateSiteOrCreate(st, id, updates, writeOk) ==
  LET siteIndex == FindIndex([i \in DOMAIN st.sites |-> st.sites[i].id = id])
      created == [id |-> id, name |-> updates.name, url |-> updates.url,
                  username |-> updates.username,
                  applicationPassword |-> updates.applicationPassword,
                  consumerKey |-> Undefined, consumerSecret |-> Undefined,
                  createdAt |-> st.now, updatedAt |-> st.now]
  IN IF siteIndex = 0
     THEN SaveAndReturn([st EXCEPT !.sites = Append(@, created)], writeOk, <<created>>)
     ELSE LET updatedSite == MergeSite(st.sites[siteIndex], updates, st.now)
          IN SaveAndReturn([st EXCEPT !.sites[siteIndex] = updatedSite], writeOk,
                           <<updatedSite>>)

StorageUpdateSite(st, id, updates, writeOk) ==
  LET siteIndex == FindIndex([i \in DOMAIN st.sites |-> st.sites[i].id = id])
  IN IF siteIndex = 0 THEN Throw(st, "NotFound")
     ELSE LET currentSite == st.sites[siteIndex]
          IN IF UpdateNameConflict(st.sites, currentSite, updates)
             THEN Throw(st, "DuplicateName")
             ELSE IF UpdateUrlConflict(st.sites, currentSite, updates)
             THEN Throw(st, "DuplicateUrl")
             ELSE LET updatedSite == MergeSite(currentSite, updates, st.now)
                      replaced == [st EXCEPT !.sites[siteIndex] = updatedSite]
                  IN SaveAndReturn(replaced, writeOk, <<updatedSite>>)

StorageRemoveSite(st, id, writeOk) ==
  LET siteIndex == FindIndex([i \in DOMAIN st.sites |-> st.sites[i].id = id])
  IN IF siteIndex = 0 THEN Throw(st, "false")
     ELSE SaveAndReturn([st EXCEPT !.sites = Splice(@, siteIndex)], writeOk, Null)

\* setActiveSite without the lookup of the record (a variant of
\* StorageSetActiveSite)
SetActiveSiteUnchecked(st, id, writeOk) ==
  SaveAndReturn([st EXCEPT !.activeSiteId = id], writeOk, getSiteById(st.sites, id))

StorageSetActiveSite(st, id, writeOk) ==
  LET site == getSiteById(st.sites, id)
  IN IF site = Null THEN Throw(st, "NotFound")
     ELSE SaveAndReturn([st EXCEPT !.activeSiteId = id], writeOk, site)

-----------------------------------------------------------------------------
(* SiteManager: the credential round trip in front of the storage call.     *)
(* backendOk is the outcome of the request validateCredentials sends.       *)

\* validateCredentials: throws on a missing field or a failed request
validateCredentials(url, username, applicationPassword, backendOk) ==
  /\ ~FalsyUrl(url)
  /\ ~Falsy(username)
  /\ ~Falsy(applicationPassword)
  /\ backendOk

\* site.validate !== false && site.username && site.applicationPassword
AddValidates(site) ==
  site.validate /\ ~Falsy(site.username) /\ ~Falsy(site.applicationPassword)

\* addSite storing the site before its credentials are validated (a variant
\* of ManagerAddSite)
ManagerAddSiteThenValidate(st, site, backendOk, writeOk) ==
  LET r == StorageAddSite(st, site, writeOk)
  IN IF /\ AddValidates(site)
        /\ ~validateCredentials(site.url, site.username, site.applicationPassword, backendOk)
     THEN [r EXCEPT !.err = "ValidationFailed"]
     ELSE r

ManagerAddSite(st, site, backendOk, writeOk) ==
  IF /\ AddValidates(site)
     /\ ~validateCredentials(site.url, site.username, site.applicationPassword, backendOk)
  THEN Throw(st, "ValidationFailed")
  ELSE StorageAddSite(st, site, writeOk)

Or(a, b) == IF Falsy(a) THEN b ELSE a
OrUrl(a, b) == IF FalsyUrl(a) THEN b ELSE a

\* updates.validate !== false && username && applicationPassword, on the
\* merged credentials
UpdateValidates(currentSite, updates) ==
  /\ updates.validate
  /\ ~Falsy(Or(updates.username, currentSite.username))
  /\ ~Falsy(Or(updates.applicationPassword, currentSite.applicationPassword))

ManagerUpdateSite(st, id, updates, backendOk, writeOk) ==
  LET found == getSiteById(st.sites, id)
  IN IF found = Null THEN Throw(st, "NotFound")
     ELSE LET currentSite == found[1]
              username == Or(updates.username, currentSite.username)
              applicationPassword ==
                Or(updates.applicationPassword, currentSite.applicationPassword)
              url == OrUrl(updates.url, currentSite.url)
          IN IF /\ UpdateValidates(currentSite, updates)
                /\ ~validateCredentials(url, username, applicationPassword, backendOk)
             THEN Throw(st, "ValidationFailed")
             ELSE StorageUpdateSite(st, id, updates, writeOk)

-----------------------------------------------------------------------------
(* Inputs of the registry calls *)

\* The credential fields an argument bag carries: none, the WordPress pair
\* or the WooCommerce pair.
NoCredentials ==
  [username |-> Undefined, applicationPassword |-> Undefined,
   consumerKey |-> Undefined, consumerSecret |-> Undefined]

Credentials ==
  {NoCredentials,
   [NoCredentials EXCEPT !.username = "user", !.applicationPassword = "pass"],
   [NoCredentials EXCEPT !.consumerKey = "ck", !.consumerSecret = "cs"]}

\* the argument of addSite
SiteInput(id, name, url, c, validate) ==
  [id |-> id, name |-> name, url |-> url, username |-> c.username,
   applicationPassword |-> c.applicationPassword, consumerKey |-> c.consumerKey,
   consumerSecret |-> c.consumerSecret, validate |-> validate]

\* validate is only read when the WordPress pair is present
AddInputs ==
  {SiteInput(id, name, url, c, validate) :
     id \in {Undefined} \cup CallerIds, name \in Names, url \in Urls,
     c \in Credentials, validate \in {TRUE}}
  \cup {SiteInput(id, name, url, c, FALSE) :
     id \in {Undefined} \cup CallerIds, name \in Names, url \in Urls,
     c \in {d \in Credentials : d.username # Undefined}}

\* The outcomes of the credential request, when one is sent.
BackendOutcomes(sent) == IF sent THEN BOOLEAN ELSE {TRUE}

\* the patch of updateSite (update_site strips id from its arguments): it
\* patches the name, the url, one credential pair, or nothing
PatchInput(name, url, c, validate) ==
  [name |-> name, url |-> url, username |-> c.username,
   applicationPassword |-> c.applicationPassword, consumerKey |-> c.consumerKey,
   consumerSecret |-> c.consumerSecret, validate |-> validate]

UpdateInputs ==
  {PatchInput(name, UndefinedUrl, NoCredentials, validate) :
     name \in Names \cup {Undefined}, validate \in BOOLEAN}
  \cup {PatchInput(Undefined, url, NoCredentials, validate) :
     url \in Urls, validate \in BOOLEAN}
  \cup {PatchInput(Undefined, UndefinedUrl, c, validate) :
     c \in Credentials, validate \in BOOLEAN}

\* ids a caller can name: the stored ones and the caller's own
IdInputs(ss) == {ss[i].id : i \in DOMAIN ss} \cup CallerIds

\* whether updateSite(id, updates) sends the credential request
UpdateSends(ss, id, updates) ==
  LET found == getSiteById(ss, id)
  IN found # Null /\ UpdateValidates(found[1], updates)

-----------------------------------------------------------------------------
(* The registry as a state machine: one action per SiteManager method.      *)

NoCall == [op |-> "none", err |-> "ok", id |-> Undefined, name |-> Undefined,
           url |-> UndefinedUrl]

\* no request answered yet
NoResponse ==
  [req |-> "none", tool |-> Undefined, backend |-> "none", site |-> Undefined,
   kind |-> "none", content |-> <<>>, isError |-> FALSE, error |-> <<>>,
   tools |-> <<>>]

\* a session no message has been delivered to
NoRequests == [delivered |-> 0, awaiting |-> {}, responses |-> <<>>]

\* new HttpServerTransport(options): pendingRequests = new Map(), no
\* onmessage callback set
NoHttp ==
  [onmessage |-> FALSE, requests |-> <<>>, pendingRequests |-> <<>>,
   forwarded |-> {}]

\* no call of the SiteManager suspended
NoFlight == [update |-> <<>>, add |-> <<>>]

\* no WordPressClient built
NoClient ==
  [built |-> FALSE, username |-> <<>>, applicationPassword |-> <<>>,
   defaultHeaders |-> <<>>, authHeaders |-> <<>>, sent |-> <<>>,
   lastResponse |-> <<>>, listed |-> <<>>]

\* no answer sent by the SSE server
NoAnswer ==
  [route |-> "none", sessionId |-> Undefined, status |-> 0, deliveredTo |-> {}]

\* node index.js before main() has run
NoProcess ==
  [state |-> "new", transport |-> "stdio", configFile |-> "missing",
   servers |-> <<>>, connections |-> {}, closed |-> {}, torn |-> {},
   out |-> NoAnswer]

\* new SiteStorage on a missing configuration file; toolHandlers = new Map(),
\* toolDefinitions = [], new Server(...)
Init ==
  /\ sites = <<>>
  /\ activeSiteId = Undefined
  /\ file = [sites |-> <<>>, activeSiteId |-> Undefined]
  /\ now = 0
  /\ nextUuid = 0
  /\ last = NoCall
  /\ pc = "new"
  /\ toolDefinitions = <<>>
  /\ toolHandlers = <<>>
  /\ callToolHandler = "none"
  /\ listToolsHandler = "none"
  /\ resp = NoResponse
  /\ sessions = <<>>
  /\ proc = NoProcess
  /\ inflight = NoRequests
  /\ http = NoHttp
  /\ client = NoClient
  /\ flight = NoFlight

\* The store after a call.  The clock has moved on by the next call that
\* changes the store.
Becomes(r) ==
  /\ sites' = r.st.sites
  /\ activeSiteId' = r.st.activeSiteId
  /\ file' = r.st.file
  /\ nextUuid' = r.st.uuid
  /\ now' = IF r.st.sites # sites \/ r.st.activeSiteId # activeSiteId THEN now + 1 ELSE now
  /\ sessions' = sessions
  /\ proc' = proc
  /\ inflight' = inflight
  /\ http' = http
  /\ client' = client
  /\ flight' = flight

\* what the caller sees: the method, its outcome, the id of the record it
\* returned or, failing that, the id it was called with, and the name and
\* the url it was called with
Outcome(op, r, id, name, url) ==
  [op |-> op, err |-> r.err, id |-> IF r.ret = Null THEN id ELSE r.ret[1].id,
   name |-> name, url |-> url]

\* A caller makes one call at a time and takes its outcome before the next.
CanCall == last = NoCall /\ now < MaxClock

AddSiteCall(site, backendOk, writeOk) ==
  LET r == ManagerAddSite(Store, site, backendOk, writeOk)
  IN /\ CanCall
     /\ Len(r.st.sites) <= MaxSites
     /\ Becomes(r)
     /\ last' = Outcome("addSite", r, site.id, site.name, site.url)
     /\ UNCHANGED <<serverVars, resp>>

UpdateSiteCall(id, updates, backendOk, writeOk) ==
  LET r == ManagerUpdateSite(Store, id, updates, backendOk, writeOk)
  IN /\ CanCall
     /\ Becomes(r)
     /\ last' = Outcome("updateSite", r, id, updates.name, updates.url)
     /\ UNCHANGED <<serverVars, resp>>

RemoveSiteCall(id, writeOk) ==
  LET r == StorageRemoveSite(Store, id, writeOk)
  IN /\ CanCall
     /\ Becomes(r)
     /\ last' = Outcome("removeSite", r, id, Undefined, UndefinedUrl)
     /\ UNCHANGED <<serverVars, resp>>

SetActiveSiteCall(id, writeOk) ==
  LET r == StorageSetActiveSite(Store, id, writeOk)
  IN /\ CanCall
     /\ Becomes(r)
     /\ last' = Outcome("setActiveSite", r, id, Undefined, UndefinedUrl)
     /\ UNCHANGED <<serverVars, resp>>

\* The caller takes the outcome.
Return ==
  /\ last # NoCall
  /\ last' = NoCall
  /\ UNCHANGED <<storeVars, serverVars, resp>>

\* Spec: the registry on a disk that accepts every write.
AddSite ==
  /\ CanCall
  /\ \E site \in AddInputs : \E backendOk \in BackendOutcomes(AddValidates(site)) :
       AddSiteCall(site, backendOk, TRUE)

UpdateSite ==
  /\ CanCall
  /\ \E id \in IdInputs(sites), updates \in UpdateInputs :
       \E backendOk \in BackendOutcomes(UpdateSends(sites, id, updates)) :
         UpdateSiteCall(id, updates, backendOk, TRUE)

RemoveSite == CanCall /\ \E id \in IdInputs(sites) : RemoveSiteCall(id, TRUE)

SetActiveSite == CanCall /\ \E id \in IdInputs(sites) : SetActiveSiteCall(id, TRUE)

Next == AddSite \/ UpdateSite \/ RemoveSite \/ SetActiveSite \/ Return

Spec == Init /\ [][Next]_vars

-----------------------------------------------------------------------------
(* FlightSpec: the registry called by requests that overlap.  addSite and   *)
(* updateSite of the SiteManager are async: a call that validates is        *)
(* suspended at await validateCredentials(...) and other calls run before   *)
(* it goes on with this.storage.addSite or this.storage.updateSite.         *)

WordPressPair ==
  [NoCredentials EXCEPT !.username = "user", !.applicationPassword = "pass"]

FlightAddInputs ==
  {SiteInput(id, "A", <<"a">>, c, TRUE) :
     id \in {Undefined} \cup CallerIds, c \in {NoCredentials, WordPressPair}}
  \cup {SiteInput(Undefined, "B", <<"A">>, NoCredentials, TRUE)}

FlightUpdateInputs ==
  {PatchInput(name, UndefinedUrl, c, TRUE) :
     name \in {Undefined, "B"}, c \in {NoCredentials, WordPressPair}}

\* the store after a call that was suspended
Settles(r) ==
  /\ sites' = r.st.sites
  /\ activeSiteId' = r.st.activeSiteId
  /\ file' = r.st.file
  /\ nextUuid' = r.st.uuid
  /\ now' = IF r.st.sites # sites THEN now + 1 ELSE now
  /\ UNCHANGED <<sessions, proc, inflight, http, client, serverVars, resp>>

Suspends ==
  UNCHANGED <<sites, activeSiteId, file, now, nextUuid, sessions, proc,
              inflight, http, client, serverVars, last, resp>>

\* SiteManager.addSite up to await validateCredentials
AddBegin(site) ==
  /\ CanCall
  /\ flight.add = <<>>
  /\ AddValidates(site)
  /\ flight' = [flight EXCEPT !.add = <<site>>]
  /\ Suspends

\* SiteManager.addSite after the await: the catch that rethrows, or
\* this.storage.addSite(site)
AddSettle(backendOk) ==
  LET site == flight.add[1]
      r == ManagerAddSite(Store, site, backendOk, TRUE)
  IN /\ flight.add # <<>>
     /\ CanCall
     /\ Len(r.st.sites) <= MaxSites
     /\ Settles(r)
     /\ flight' = [flight EXCEPT !.add = <<>>]
     /\ last' = Outcome("addSite", r, site.id, site.name, site.url)

\* SiteManager.updateSite up to await validateCredentials: the site is
\* looked up and the credentials to validate are merged from it
UpdateBegin(id, updates) ==
  LET found == getSiteById(sites, id)
  IN /\ CanCall
     /\ flight.update = <<>>
     /\ found # Null
     /\ UpdateValidates(found[1], updates)
     /\ flight' = [flight EXCEPT
                     !.update = <<[id |-> id, updates |-> updates,
                                   currentSite |-> found[1]]>>]
     /\ Suspends

\* SiteManager.updateSite after the await: the catch that rethrows, or
\* this.storage.updateSite(id, siteUpdates)
UpdateSettle(backendOk) ==
  LET call == flight.update[1]
      cur == call.currentSite
      valid == validateCredentials(OrUrl(call.updates.url, cur.url),
                                   Or(call.updates.username, cur.username),
                                   Or(call.updates.applicationPassword,
                                      cur.applicationPassword),
                                   backendOk)
      r == IF valid THEN StorageUpdateSite(Store, call.id, call.updates, TRUE)
           ELSE Throw(Store, "ValidationFailed")
  IN /\ flight.update # <<>>
     /\ CanCall
     /\ Settles(r)
     /\ flight' = [flight EXCEPT !.update = <<>>]
     /\ last' = Outcome("updateSite", r, call.id, call.updates.name, call.updates.url)

FlightAddBegin == \E site \in FlightAddInputs : AddBegin(site)

FlightAddSettle == \E backendOk \in BOOLEAN : AddSettle(backendOk)

FlightUpdateBegin ==
  \E id \in IdInputs(sites), updates \in FlightUpdateInputs : UpdateBegin(id, updates)

FlightUpdateSettle == \E backendOk \in BOOLEAN : UpdateSettle(backendOk)

\* calls that do not validate run to their end
FlightAddSite ==
  /\ CanCall
  /\ \E site \in FlightAddInputs : ~AddValidates(site) /\ AddSiteCall(site, TRUE, TRUE)

FlightRemoveSite == CanCall /\ \E id \in IdInputs(sites) : RemoveSiteCall(id, TRUE)

FlightNext ==
  \/ FlightAddBegin
  \/ FlightAddSettle
  \/ FlightUpdateBegin
  \/ FlightUpdateSettle
  \/ FlightAddSite
  \/ FlightRemoveSite
  \/ Return

FlightSpec == Init /\ [][FlightNext]_vars

-----------------------------------------------------------------------------
(* DiskSpec: the registry on a disk that can refuse a write.  saveConfig    *)
(* then throws out of the method, after the method has changed the          *)
(* in-memory configuration.                                                 *)

DiskAddInputs ==
  {SiteInput(Undefined, name, url, c, TRUE) :
     name \in {"", "A", "B"}, url \in {<<"a">>, <<"A">>},
     c \in {d \in Credentials : d.consumerKey = Undefined}}

DiskUpdateInputs ==
  {PatchInput(name, UndefinedUrl, NoCredentials, TRUE) : name \in {"A", "B"}}
  \cup {PatchInput(Undefined, <<"a">>, c, TRUE) :
          c \in {d \in Credentials : d.consumerKey = Undefined}}

DiskAddSite ==
  /\ CanCall
  /\ \E site \in DiskAddInputs : \E backendOk \in BackendOutcomes(AddValidates(site)) :
       \E writeOk \in BOOLEAN : AddSiteCall(site, backendOk, writeOk)

DiskUpdateSite ==
  /\ CanCall
  /\ \E id \in IdInputs(sites), updates \in DiskUpdateInputs :
       \E backendOk \in BackendOutcomes(UpdateSends(sites, id, updates)) :
         \E writeOk \in BOOLEAN : UpdateSiteCall(id, updates, backendOk, writeOk)

DiskRemoveSite ==
  CanCall /\ \E id \in IdInputs(sites), writeOk \in BOOLEAN : RemoveSiteCall(id, writeOk)

DiskSetActiveSite ==
  CanCall /\ \E id \in IdInputs(sites), writeOk \in BOOLEAN : SetActiveSiteCall(id, writeOk)

DiskNext ==
  DiskAddSite \/ DiskUpdateSite \/ DiskRemoveSite \/ DiskSetActiveSite \/ Return

DiskSpec == Init /\ [][DiskNext]_vars

-----------------------------------------------------------------------------
(* The tools.  A descriptor or a handler is known by its tool name; the      *)
(* lists are in the order of the modules' arrays and registerToolHandler     *)
(* calls.                                                                    *)

SiteToolNames ==
  <<"add_site", "list_sites", "get_site", "update_site", "remove_site",
    "select_site", "get_active_site", "get_site_info">>

\* the descriptor of test_site_connectivity is commented out, its handler is not
SiteHandlerNames ==
  <<"add_site", "list_sites", "get_site", "update_site", "remove_site",
    "select_site", "get_active_site", "test_site_connectivity", "get_site_info">>

PostToolNames == <<"list_posts", "get_post", "create_post", "update_post", "delete_post">>

PageToolNames == <<"list_pages", "get_page", "create_page", "update_page", "delete_page">>

ProductToolNames ==
  <<"list_products", "create_product", "update_product", "delete_product">>

OrderToolNames == <<"list_orders", "create_order", "update_order", "delete_order">>

\* registerWooCustomerTools is defined but WordPressMcpServer does not call it
CustomerToolNames ==
  <<"list_customers", "create_customer", "update_customer", "delete_customer">>

Range(seq) == {seq[i] : i \in DOMAIN seq}

\* names a client can ask for that no module registers
UnregisteredNames == {"no_such_tool"} \cup Range(CustomerToolNames)

\* Map.prototype.set for each name of a module
Bind(handlers, names, module) ==
  [n \in DOMAIN handlers \cup Range(names) |->
     IF n \in Range(names) THEN module ELSE handlers[n]]

\* the registry and the handler table registerTools builds: the modules in
\* the order of their registration
StartupDefinitions ==
  SiteToolNames \o PostToolNames \o PageToolNames \o ProductToolNames \o OrderToolNames

StartupHandlers ==
  Bind(Bind(Bind(Bind(Bind(<<>>, SiteHandlerNames, "site"), PostToolNames, "post"),
                 PageToolNames, "page"), ProductToolNames, "product"),
       OrderToolNames, "order")

-----------------------------------------------------------------------------
(* Envelopes.  A text is a sequence of string parts (a template literal's    *)
(* pieces); a JSON object is the sequence of its members.                    *)

BackendMessage == "fetch failed"

\* reading a property of undefined
TypeErrorMessage == <<"Cannot read properties of undefined">>

Member(key, value) == [key |-> key, defined |-> TRUE, value |-> value]

\* a member whose value is undefined
UndefinedMember(key) == [key |-> key, defined |-> FALSE, value |-> <<>>]

\* JSON.stringify(object): members whose value is undefined are left out
JsonStringify(members) ==
  LET Kept(m) == m.defined
  IN SelectSeq(members, Kept)

\* { content: [{ type: 'text', text: JSON.stringify({ status: 'error',
\*   message }) }] } without the isError property (a variant of ErrorEnvelope)
ErrorEnvelopeUnflagged(message) ==
  [kind |-> "result",
   content |-> <<[type |-> "text",
                  text |-> JsonStringify(<<Member("status", <<"error">>),
                                           Member("message", message)>>)]>>,
   isError |-> FALSE, error |-> <<>>]

\* { content: [{ type: 'text', text: JSON.stringify({ status: 'error',
\*   message }) }], isError: true }
ErrorEnvelope(message) ==
  [kind |-> "result",
   content |-> <<[type |-> "text",
                  text |-> JsonStringify(<<Member("status", <<"error">>),
                                           Member("message", message)>>)]>>,
   isError |-> TRUE, error |-> <<>>]

\* { content: [{ type: 'text', text: JSON.stringify({ status: 'success',
\*   ...members }) }] }
SuccessEnvelope(members) ==
  [kind |-> "result",
   content |-> <<[type |-> "text",
                  text |-> JsonStringify(<<Member("status", <<"success">>)>> \o members)]>>,
   isError |-> FALSE, error |-> <<>>]

\* an exception that leaves the handler
Raised(message) ==
  [kind |-> "raised", content |-> <<>>, isError |-> FALSE, error |-> message]

\* const { applicationPassword, ...filteredSite } = site
filterCredentials(site, includeCredentials) ==
  IF includeCredentials THEN site ELSE [site EXCEPT !.applicationPassword = Undefined]

\* error.message of what a registry method throws
MessageOf(err, who, id, name, url) ==
  CASE err = "MissingName" -> <<"[SiteStorage] Missing required field: name">>
    [] err = "MissingUrl" -> <<"[SiteStorage] Missing required field: url">>
    [] err = "DuplicateName" ->
         <<"[SiteStorage] A site with the name \"", name, "\" already exists">>
    [] err = "DuplicateUrl" ->
         <<"[SiteStorage] A site with the URL \"">> \o url \o <<"\" already exists">>
    [] err = "NotFound" -> <<who, "Site not found: ", id>>
    [] err = "MissingCredentials" ->
         <<"[SiteManager] Failed to validate site credentials: ",
           "[Auth] Missing required credentials">>
    [] err = "ValidationFailed" ->
         <<"[SiteManager] Failed to validate site credentials: ",
           "[Auth] Failed to validate credentials: ", BackendMessage>>
    [] OTHER -> <<err>>

-----------------------------------------------------------------------------
(* Tool handlers.  A handler maps the store and the arguments of the request *)
(* to the store after it, what it did with the backend, and what it returns  *)
(* or throws.  args.present = FALSE is a request without an arguments field: *)
(* the handler is called with undefined.                                     *)

ArgBag(site, site_id, includeCredentials) ==
  [present |-> TRUE, id |-> site.id, name |-> site.name, url |-> site.url,
   username |-> site.username, applicationPassword |-> site.applicationPassword,
   consumerKey |-> site.consumerKey, consumerSecret |-> site.consumerSecret,
   validate |-> site.validate, site_id |-> site_id,
   includeCredentials |-> includeCredentials]

EmptyBag == ArgBag(SiteInput(Undefined, Undefined, UndefinedUrl, NoCredentials, TRUE),
                   Undefined, FALSE)

Omitted == [EmptyBag EXCEPT !.present = FALSE]

\* a handler that built no client for a stored site
Done(st, backend, out) ==
  [st |-> st, backend |-> backend, site |-> Undefined, out |-> out]

\* a handler whose client is the one of the stored site with this id
DoneOn(st, site, backend, out) ==
  [st |-> st, backend |-> backend, site |-> site, out |-> out]

\* SiteManager.createClientForSite: the site the client is built for; Null
\* where it throws
createClientForSite(st, id) == getSiteById(st.sites, id)

\* SiteManager.createClientForActiveSite
createClientForActiveSite(st) == getActiveSite(st.sites, st.activeSiteId)

\* args.site_id ? siteManager.createClientForSite(args.site_id)
\*              : siteManager.createClientForActiveSite()
ClientFor(st, args) ==
  IF ~Falsy(args.site_id) THEN createClientForSite(st, args.site_id)
  ELSE createClientForActiveSite(st)

\* what the credential request did: validateCredentials returns before its
\* fetch when a field is missing
ValidationBackend(validates, url, backendOk) ==
  IF validates /\ ~FalsyUrl(url) THEN (IF backendOk THEN "ok" ELSE "threw") ELSE "none"

\* the error a failed registry call carries
ThrownBy(r, backend, who, id, name, url) ==
  MessageOf(IF r.err = "ValidationFailed" /\ backend = "none"
            THEN "MissingCredentials" ELSE r.err, who, id, name, url)

add_site(st, args, backendOk) ==
  IF ~args.present THEN Done(st, "none", Raised(TypeErrorMessage))
  ELSE LET r == ManagerAddSite(st, args, backendOk, TRUE)
           backend == ValidationBackend(AddValidates(args), args.url, backendOk)
       IN IF r.err = "ok"
          THEN Done(r.st, backend, SuccessEnvelope(
                 <<Member("message", <<"Site \"", args.name, "\" added successfully">>),
                   Member("site", <<filterCredentials(r.ret[1], args.includeCredentials)>>)>>))
          ELSE Done(r.st, backend, ErrorEnvelope(
                 ThrownBy(r, backend, "[SiteStorage] ", args.id, args.name, args.url)))

list_sites(st, args) ==
  IF ~args.present /\ st.sites # <<>>
  THEN Done(st, "none", ErrorEnvelope(TypeErrorMessage))
  ELSE Done(st, "none", SuccessEnvelope(
         <<Member("count", <<ToString(Len(st.sites))>>),
           Member("sites", [i \in DOMAIN st.sites |->
                              filterCredentials(st.sites[i], args.includeCredentials)])>>))

get_site(st, args) ==
  IF ~args.present THEN Done(st, "none", Raised(TypeErrorMessage))
  ELSE LET site == IF ~Falsy(args.id) THEN getSiteById(st.sites, args.id)
                   ELSE IF ~Falsy(args.name) THEN getSiteByName(st.sites, args.name)
                   ELSE Null
       IN IF site = Null
          THEN Done(st, "none", ErrorEnvelope(<<"Site not found: ", Or(args.id, args.name)>>))
          ELSE Done(st, "none", SuccessEnvelope(
                 <<Member("site", <<filterCredentials(site[1], args.includeCredentials)>>)>>))

\* const { id, ...updates } = args
update_site(st, args, backendOk) ==
  IF ~args.present THEN Done(st, "none", Raised(TypeErrorMessage))
  ELSE LET updates == PatchInput(args.name, args.url, args, args.validate)
           r == ManagerUpdateSite(st, args.id, updates, backendOk, TRUE)
           found == getSiteById(st.sites, args.id)
           backend == IF found = Null THEN "none"
                      ELSE ValidationBackend(UpdateValidates(found[1], updates),
                                             OrUrl(args.url, found[1].url), backendOk)
       IN IF r.err = "ok"
          THEN Done(r.st, backend, SuccessEnvelope(
                 <<Member("message", <<"Site \"", r.ret[1].name, "\" updated successfully">>),
                   Member("site", <<filterCredentials(r.ret[1], args.includeCredentials)>>)>>))
          ELSE Done(r.st, backend, ErrorEnvelope(
                 ThrownBy(r, backend, "[SiteManager] ", args.id, args.name, args.url)))

remove_site(st, args) ==
  IF ~args.present THEN Done(st, "none", Raised(TypeErrorMessage))
  ELSE LET r == StorageRemoveSite(st, args.id, TRUE)
       IN IF r.err = "ok"
          THEN Done(r.st, "none",
                    SuccessEnvelope(<<Member("message", <<"Site removed successfully">>)>>))
          ELSE Done(r.st, "none", ErrorEnvelope(<<"Site not found: ", args.id>>))

select_site(st, args) ==
  IF ~args.present THEN Done(st, "none", Raised(TypeErrorMessage))
  ELSE LET r == StorageSetActiveSite(st, args.id, TRUE)
       IN IF r.err = "ok"
          THEN Done(r.st, "none", SuccessEnvelope(
                 <<Member("message", <<"Site \"", r.ret[1].name, "\" selected as active site">>),
                   Member("site", <<filterCredentials(r.ret[1], args.includeCredentials)>>)>>))
          ELSE Done(r.st, "none", ErrorEnvelope(
                 MessageOf(r.err, "[SiteStorage] ", args.id, Undefined, UndefinedUrl)))

get_active_site(st, args) ==
  LET site == getActiveSite(st.sites, st.activeSiteId)
  IN IF site = Null THEN Done(st, "none", ErrorEnvelope(<<"No active site set">>))
     ELSE IF ~args.present THEN Done(st, "none", ErrorEnvelope(TypeErrorMessage))
     ELSE Done(st, "none", SuccessEnvelope(
            <<Member("site", <<filterCredentials(site[1], args.includeCredentials)>>)>>))

\* SiteManager.testSiteConnectivity: WordPress.ping() turns a failed request
\* into false
test_site_connectivity(st, args, backendOk) ==
  IF ~args.present THEN Done(st, "none", Raised(TypeErrorMessage))
  ELSE IF getSiteById(st.sites, args.id) = Null
  THEN Done(st, "none", ErrorEnvelope(<<"[SiteManager] Site not found: ", args.id>>))
  ELSE IF backendOk
  THEN Done(st, "ok", SuccessEnvelope(<<Member("reachable", <<"true">>),
                                        Member("message", <<"Site is reachable">>)>>))
  ELSE Done(st, "threw", SuccessEnvelope(<<Member("reachable", <<"false">>),
                                           Member("message", <<"Site is not reachable">>)>>))

\* SiteManager.getSiteInfo: WordPress.getSiteInfo() wraps the failed request
get_site_info(st, args, backendOk) ==
  IF ~args.present THEN Done(st, "none", Raised(TypeErrorMessage))
  ELSE IF getSiteById(st.sites, args.id) = Null
  THEN Done(st, "none", ErrorEnvelope(<<"[SiteManager] Site not found: ", args.id>>))
  ELSE IF backendOk
  THEN Done(st, "ok", SuccessEnvelope(<<Member("info", <<"info">>)>>))
  ELSE Done(st, "threw", ErrorEnvelope(<<"[WordPress] Failed to get site info: ",
                                         BackendMessage>>))

\* the post and page tools that read a property of args before their try
ReadsArgsFirst ==
  {"get_post", "create_post", "update_post", "delete_post",
   "get_page", "create_page", "update_page", "delete_page"}

\* A post or page tool: the client of args.site_id or of the active site,
\* one request to the backend, its result or its error in an envelope.
SiteScopedTool(tool, st, args, backendOk) ==
  IF ~args.present
  THEN IF tool \in ReadsArgsFirst
       THEN Done(st, "none", Raised(TypeErrorMessage))
       ELSE Done(st, "none", ErrorEnvelope(TypeErrorMessage))
  ELSE IF ~Falsy(args.site_id) /\ ClientFor(st, args) = Null
  THEN Done(st, "none", ErrorEnvelope(<<"[SiteManager] Site not found: ", args.site_id>>))
  ELSE IF Falsy(args.site_id) /\ ClientFor(st, args) = Null
  THEN Done(st, "none", ErrorEnvelope(<<"[SiteManager] No active site set">>))
  ELSE IF backendOk
  THEN DoneOn(st, ClientFor(st, args)[1].id, "ok",
              SuccessEnvelope(<<Member("result", <<tool>>)>>))
  ELSE DoneOn(st, ClientFor(st, args)[1].id, "threw", ErrorEnvelope(<<BackendMessage>>))

\* the client method a product or order tool calls
WooMethod(tool) ==
  CASE tool \in {"list_products", "list_orders"} -> "get"
    [] tool \in {"create_product", "create_order"} -> "post"
    [] tool \in {"update_product", "update_order"} -> "put"
    [] OTHER -> "delete"

\* A product or order tool: SiteManager has no createClientForWoocommerce and
\* without a site_id the client is false, so the handler's try always ends in
\* its catch, before any request.
WooTool(tool, st, args) ==
  IF ~args.present THEN Done(st, "none", ErrorEnvelope(TypeErrorMessage))
  ELSE IF ~Falsy(args.site_id)
  THEN Done(st, "none",
            ErrorEnvelope(<<"siteManager.createClientForWoocommerce is not a function">>))
  ELSE Done(st, "none", ErrorEnvelope(<<"client.", WooMethod(tool), " is not a function">>))

\* this.toolHandlers.get(name)(args)
Handler(name, st, args, backendOk) ==
  CASE name = "add_site" -> add_site(st, args, backendOk)
    [] name = "list_sites" -> list_sites(st, args)
    [] name = "get_site" -> get_site(st, args)
    [] name = "update_site" -> update_site(st, args, backendOk)
    [] name = "remove_site" -> remove_site(st, args)
    [] name = "select_site" -> select_site(st, args)
    [] name = "get_active_site" -> get_active_site(st, args)
    [] name = "test_site_connectivity" -> test_site_connectivity(st, args, backendOk)
    [] name = "get_site_info" -> get_site_info(st, args, backendOk)
    [] name \in Range(PostToolNames) \cup Range(PageToolNames) ->
         SiteScopedTool(name, st, args, backendOk)
    [] OTHER -> WooTool(name, st, args)

-----------------------------------------------------------------------------
(* The server: renderInit registers the modules in order, then the          *)
(* centralized request handlers; after that it answers requests.            *)

\* unshift instead of push (a variant of registerToolDefinition)
registerToolDefinitionFirst(definitions, toolDefinition) ==
  <<toolDefinition>> \o definitions

\* this.toolDefinitions.push(toolDefinition)
registerToolDefinition(definitions, toolDefinition) ==
  Append(definitions, toolDefinition)

\* toolDefinitions.forEach(def => this.registerToolDefinition(def))
RECURSIVE registerToolDefinitions(_, _)
registerToolDefinitions(definitions, tools) ==
  IF tools = <<>> THEN definitions
  ELSE registerToolDefinitions(registerToolDefinition(definitions, Head(tools)), Tail(tools))

RegisterModule(at, to, definitions, handlers, module) ==
  /\ pc = at
  /\ pc' = to
  /\ toolDefinitions' = registerToolDefinitions(toolDefinitions, definitions)
  /\ toolHandlers' = Bind(toolHandlers, handlers, module)

\* registerSiteTools: descriptors, handlers, no request handler of its own
RegisterSiteTools ==
  /\ RegisterModule("new", "site", SiteToolNames, SiteHandlerNames, "site")
  /\ UNCHANGED <<callToolHandler, listToolsHandler, storeVars, last, resp>>

\* registerPostTools: also sets its own CallTool request handler
RegisterPostTools ==
  /\ RegisterModule("site", "post", PostToolNames, PostToolNames, "post")
  /\ callToolHandler' = "post"
  /\ UNCHANGED <<listToolsHandler, storeVars, last, resp>>

RegisterPageTools ==
  /\ RegisterModule("post", "page", PageToolNames, PageToolNames, "page")
  /\ UNCHANGED <<callToolHandler, listToolsHandler, storeVars, last, resp>>

RegisterWooProductTools ==
  /\ RegisterModule("page", "product", ProductToolNames, ProductToolNames, "product")
  /\ callToolHandler' = "product"
  /\ UNCHANGED <<listToolsHandler, storeVars, last, resp>>

RegisterWooOrderTools ==
  /\ RegisterModule("product", "order", OrderToolNames, OrderToolNames, "order")
  /\ callToolHandler' = "order"
  /\ UNCHANGED <<listToolsHandler, storeVars, last, resp>>

\* setRequestHandler replaces the handler a module has set
RegisterCentralizedToolHandlers ==
  /\ pc = "order"
  /\ pc' = "ready"
  /\ callToolHandler' = "central"
  /\ listToolsHandler' = "central"
  /\ UNCHANGED <<toolDefinitions, toolHandlers, storeVars, last, resp>>

\* the arguments a client sends to a tool
ServerNames == {"A", "B"}
ServerUrls == {<<"a">>, <<"A">>}
ServerCredentials == {c \in Credentials : c.consumerKey = Undefined}

IdBag(id) ==
  ArgBag(SiteInput(id, Undefined, UndefinedUrl, NoCredentials, TRUE), Undefined, FALSE)

SiteIdBag(site_id) == [EmptyBag EXCEPT !.site_id = site_id]

ToolInputs(name, ss) ==
  CASE name = "add_site" ->
         {Omitted} \cup {ArgBag(SiteInput(Undefined, n, u, c, TRUE), Undefined, FALSE) :
                           n \in ServerNames, u \in ServerUrls, c \in ServerCredentials}
    [] name = "update_site" ->
         {Omitted} \cup {ArgBag(SiteInput(id, n, UndefinedUrl, c, TRUE), Undefined, FALSE) :
                           id \in IdInputs(ss), n \in {Undefined, "B"},
                           c \in ServerCredentials}
    [] name = "get_site" ->
         {Omitted, ArgBag(SiteInput(Undefined, "A", UndefinedUrl, NoCredentials, TRUE),
                          Undefined, FALSE)}
         \cup {[IdBag(id) EXCEPT !.includeCredentials = i] :
                 id \in IdInputs(ss), i \in BOOLEAN}
    [] name \in {"remove_site", "select_site", "test_site_connectivity", "get_site_info"} ->
         {Omitted} \cup {IdBag(id) : id \in IdInputs(ss)}
    [] name \in {"list_sites", "get_active_site"} -> {Omitted, EmptyBag}
    [] OTHER -> {Omitted, EmptyBag} \cup {SiteIdBag(id) : id \in IdInputs(ss)}

\* the tools whose handler can reach the backend
UsesBackend ==
  {"add_site", "update_site", "test_site_connectivity", "get_site_info"}
  \cup Range(PostToolNames) \cup Range(PageToolNames)

ToolNames == Range(SiteHandlerNames) \cup Range(PostToolNames) \cup Range(PageToolNames)
             \cup Range(ProductToolNames) \cup Range(OrderToolNames)

Response(req, tool, d) ==
  [req |-> req, tool |-> tool, backend |-> d.backend, site |-> d.site,
   kind |-> d.out.kind,
   content |-> d.out.content, isError |-> d.out.isError, error |-> d.out.error,
   tools |-> <<>>]

\* A connected client has one request in flight.
CanRequest == pc = "ready" /\ resp.req = "none"

\* the modules of registerTools, standing for the handlers they register
Modules == {"site", "post", "page", "product", "order"}

\* the handlers a host registers itself: each answers with its own mark
HostHandlers == {"h1", "h2"}

\* the call of a bound handler: a module's handler for the tool, or a
\* host handler
Invoke(handler, name, st, args, backendOk) ==
  IF handler \in Modules
  THEN Handler(name, st, args, backendOk)
  ELSE Done(st, "none", SuccessEnvelope(<<Member("handler", <<handler>>)>>))

\* if (this.toolHandlers.has(name)) return this.toolHandlers.get(name)(args);
\* throw new Error(`Unknown tool: ${name}`)
Dispatch(handlers, name, st, args, backendOk) ==
  IF name \in DOMAIN handlers
  THEN Invoke(handlers[name], name, st, args, backendOk)
  ELSE Done(st, "none", Raised(<<"Unknown tool: ", name>>))

\* the centralized CallTool request handler
CallToolRequest(name, args, backendOk) ==
  LET d == Dispatch(toolHandlers, name, Store, args, backendOk)
  IN /\ CanRequest
     /\ callToolHandler = "central"
     /\ now < MaxClock
     /\ Len(d.st.sites) <= MaxSites
     /\ Becomes(d)
     /\ resp' = Response("CallTool", name, d)
     /\ UNCHANGED <<serverVars, last>>

CallTool ==
  /\ CanRequest
  /\ \E name \in ToolNames \cup UnregisteredNames :
       \E args \in ToolInputs(name, sites) :
         \E backendOk \in BackendOutcomes(name \in UsesBackend) :
           CallToolRequest(name, args, backendOk)

\* the centralized ListTools request handler
ListTools ==
  /\ CanRequest
  /\ listToolsHandler = "central"
  /\ resp' = [NoResponse EXCEPT !.req = "ListTools", !.kind = "result",
                                !.tools = toolDefinitions]
  /\ UNCHANGED <<storeVars, serverVars, last>>

\* The transport sends the response.
Deliver ==
  /\ resp.req # "none"
  /\ resp' = NoResponse
  /\ UNCHANGED <<storeVars, serverVars, last>>

ServerNext ==
  \/ RegisterSiteTools
  \/ RegisterPostTools
  \/ RegisterPageTools
  \/ RegisterWooProductTools
  \/ RegisterWooOrderTools
  \/ RegisterCentralizedToolHandlers
  \/ CallTool
  \/ ListTools
  \/ Deliver

ServerSpec == Init /\ [][ServerNext]_vars

-----------------------------------------------------------------------------
(* The registration interface: a host calls registerToolDefinition and      *)
(* registerToolHandler itself, any number of times and with names it has    *)
(* used before, then sets up the centralized request handlers.              *)

MaxDefinitions == 3    \* registerToolDefinition calls

HostToolNames == {"tool_a", "tool_b"}

\* Map.prototype.set that keeps an existing entry (a variant of
\* registerToolHandler)
registerToolHandlerKeepsFirst(handlers, name, handler) ==
  [n \in DOMAIN handlers \cup {name} |->
     IF n \in DOMAIN handlers THEN handlers[n] ELSE handler]

\* this.toolHandlers.set(name, handler)
registerToolHandler(handlers, name, handler) ==
  [n \in DOMAIN handlers \cup {name} |-> IF n = name THEN handler ELSE handlers[n]]

RegisterToolDefinitionCall(name) ==
  /\ pc = "new"
  /\ Len(toolDefinitions) < MaxDefinitions
  /\ toolDefinitions' = registerToolDefinition(toolDefinitions, name)
  /\ last' = [NoCall EXCEPT !.op = "registerToolDefinition", !.name = name]
  /\ UNCHANGED <<pc, toolHandlers, callToolHandler, listToolsHandler, storeVars, resp>>

\* last.id is the handler bound by the call, last.url the handler the name
\* was bound to before it
RegisterToolHandlerCall(name, handler) ==
  /\ pc = "new"
  /\ toolHandlers' = registerToolHandler(toolHandlers, name, handler)
  /\ last' = [NoCall EXCEPT !.op = "registerToolHandler", !.name = name, !.id = handler,
                            !.url = IF name \in DOMAIN toolHandlers
                                    THEN <<toolHandlers[name]>> ELSE <<>>]
  /\ UNCHANGED <<pc, toolDefinitions, callToolHandler, listToolsHandler, storeVars, resp>>

HostRegisterToolDefinition == \E name \in HostToolNames : RegisterToolDefinitionCall(name)

HostRegisterToolHandler ==
  \E name \in HostToolNames, handler \in HostHandlers :
    RegisterToolHandlerCall(name, handler)

\* registerCentralizedToolHandlers after the host's registrations
HostRegisterCentralizedToolHandlers ==
  /\ pc = "new"
  /\ pc' = "ready"
  /\ callToolHandler' = "central"
  /\ listToolsHandler' = "central"
  /\ UNCHANGED <<toolDefinitions, toolHandlers, storeVars, last, resp>>

HostCallTool ==
  /\ CanRequest
  /\ \E name \in HostToolNames \cup {"no_such_tool"} : CallToolRequest(name, EmptyBag, TRUE)

RegistryNext ==
  \/ HostRegisterToolDefinition
  \/ HostRegisterToolHandler
  \/ HostRegisterCentralizedToolHandlers
  \/ HostCallTool
  \/ ListTools
  \/ Deliver

RegistrySpec == Init /\ [][RegistryNext]_vars

-----------------------------------------------------------------------------
(* The legacy registration path: the modules are handed a server object     *)
(* without registerToolDefinitions and without a handler table, so each     *)
(* module sets its own request handlers with setRequestHandler, which keeps *)
(* one handler per request schema.  A request is the client's JSON message: *)
(* it carries no function, so typeof request.next === 'function' is false.  *)

ModuleTools(module) ==
  CASE module = "site" -> SiteToolNames
    [] module = "post" -> PostToolNames
    [] module = "page" -> PageToolNames
    [] module = "product" -> ProductToolNames
    [] OTHER -> OrderToolNames

\* the legacy ListTools handler of a module: registerSiteTools returns its
\* tools, the other modules append theirs to { tools: [] }
LegacyListToolsHandler(module) ==
  IF module = "site" THEN SiteToolNames ELSE <<>> \o ModuleTools(module)

\* listPosts ... deletePost(client, args): one request through the client
LegacyPostHelper(tool, st, args, backendOk) ==
  IF backendOk
  THEN DoneOn(st, ClientFor(st, args)[1].id, "ok",
              SuccessEnvelope(<<Member("result", <<tool>>)>>))
  ELSE DoneOn(st, ClientFor(st, args)[1].id, "threw", ErrorEnvelope(<<BackendMessage>>))

\* listProducts ... deleteOrder(client, args): the helper builds wc_client
\* like the registered handler does; createOrder posts through the module's
\* own wooCommerceApi instead
LegacyWooHelper(tool, st, args, backendOk) ==
  IF ~Falsy(args.site_id)
  THEN Done(st, "none",
            ErrorEnvelope(<<"siteManager.createClientForWoocommerce is not a function">>))
  ELSE IF tool = "create_order"
  THEN IF backendOk
       THEN Done(st, "ok", SuccessEnvelope(
              <<Member("message", <<"Order created successfully">>),
                Member("order", <<"order">>)>>))
       ELSE Done(st, "threw", ErrorEnvelope(<<BackendMessage>>))
  ELSE Done(st, "none", ErrorEnvelope(<<"wc_client.", WooMethod(tool), " is not a function">>))

\* the CallTool request handler a module sets (registerPostTools,
\* registerWooProductTools, registerWooOrderTools)
LegacyCallToolHandler(module, name, st, args, backendOk) ==
  IF name \notin Range(ModuleTools(module))
  THEN Done(st, "none", ErrorEnvelope(<<"Unknown tool: ", name>>))
  ELSE IF ~args.present THEN Done(st, "none", ErrorEnvelope(TypeErrorMessage))
  ELSE IF ~Falsy(args.site_id) /\ ClientFor(st, args) = Null
  THEN Done(st, "none", ErrorEnvelope(<<"[SiteManager] Site not found: ", args.site_id>>))
  ELSE IF Falsy(args.site_id) /\ ClientFor(st, args) = Null
  THEN Done(st, "none", ErrorEnvelope(<<"[SiteManager] No active site set">>))
  ELSE IF module = "post" THEN LegacyPostHelper(name, st, args, backendOk)
  ELSE LegacyWooHelper(name, st, args, backendOk)

\* a record of the configuration file, as an earlier run stored it
StoredSite(id, name, url) ==
  [id |-> id, name |-> name, url |-> url, username |-> "user",
   applicationPassword |-> "pass", consumerKey |-> Undefined,
   consumerSecret |-> Undefined, createdAt |-> 0, updatedAt |-> 0]

\* the configurations loadConfig can find on disk
LoadedConfigs ==
  LET s1 == StoredSite("u1", "A", <<"a">>)
      s2 == StoredSite("u2", "B", <<"A">>)
  IN {[sites |-> ss, activeSiteId |-> a] :
        ss \in {<<>>, <<s1>>, <<s1, s2>>}, a \in {Undefined, "u1", "u2"}}

\* new SiteStorage on an existing configuration file
LegacyInit ==
  /\ \E config \in LoadedConfigs :
       /\ sites = config.sites
       /\ activeSiteId = config.activeSiteId
       /\ file = config
       /\ nextUuid = Len(config.sites)
  /\ now = 1
  /\ last = NoCall
  /\ pc = "new"
  /\ toolDefinitions = <<>>
  /\ toolHandlers = <<>>
  /\ callToolHandler = "none"
  /\ listToolsHandler = "none"
  /\ resp = NoResponse
  /\ sessions = <<>>
  /\ proc = NoProcess
  /\ inflight = NoRequests
  /\ http = NoHttp
  /\ client = NoClient
  /\ flight = NoFlight

LegacyRegisterModule(at, to) ==
  /\ pc = at
  /\ pc' = to
  /\ listToolsHandler' = to
  /\ UNCHANGED <<toolDefinitions, toolHandlers, storeVars, last, resp>>

LegacyRegisterSiteTools ==
  LegacyRegisterModule("new", "site") /\ UNCHANGED callToolHandler

LegacyRegisterPostTools ==
  LegacyRegisterModule("site", "post") /\ callToolHandler' = "post"

LegacyRegisterPageTools ==
  LegacyRegisterModule("post", "page") /\ UNCHANGED callToolHandler

LegacyRegisterWooProductTools ==
  LegacyRegisterModule("page", "product") /\ callToolHandler' = "product"

LegacyRegisterWooOrderTools ==
  LegacyRegisterModule("product", "order") /\ callToolHandler' = "order"

\* every module is registered and no request is in flight
LegacyCanRequest == pc = "order" /\ resp.req = "none"

\* the tools whose legacy handler can reach the backend
LegacyUsesBackend == Range(PostToolNames) \cup {"create_order"}

LegacyCallToolRequest(name, args, backendOk) ==
  LET d == LegacyCallToolHandler(callToolHandler, name, Store, args, backendOk)
  IN /\ LegacyCanRequest
     /\ Becomes(d)
     /\ resp' = Response("CallTool", name, d)
     /\ UNCHANGED <<serverVars, last>>

LegacyCallTool ==
  /\ LegacyCanRequest
  /\ \E name \in ToolNames \cup UnregisteredNames :
       \E args \in ToolInputs(name, sites) :
         \E backendOk \in BackendOutcomes(name \in LegacyUsesBackend) :
           LegacyCallToolRequest(name, args, backendOk)

LegacyListTools ==
  /\ LegacyCanRequest
  /\ resp' = [NoResponse EXCEPT !.req = "ListTools", !.kind = "result",
                                !.tools = LegacyListToolsHandler(listToolsHandler)]
  /\ UNCHANGED <<storeVars, serverVars, last>>

LegacyNext ==
  \/ LegacyRegisterSiteTools
  \/ LegacyRegisterPostTools
  \/ LegacyRegisterPageTools
  \/ LegacyRegisterWooProductTools
  \/ LegacyRegisterWooOrderTools
  \/ LegacyCallTool
  \/ LegacyListTools
  \/ Deliver

LegacySpec == LegacyInit /\ [][LegacyNext]_vars

-----------------------------------------------------------------------------
(* The SSE server: every GET /:account_key/sse builds a WordPressMcpServer  *)
(* of its own, whose registerSiteTools builds a SiteManager and SiteStorage *)
(* of its own on the one configuration file; a POST /message is handled by  *)
(* the server of its session.  The sessions here are established ones:     *)
(* their server has run renderInit to its end before a message reaches it  *)
(* (ProcessSpec below follows the GET handler itself).                      *)

SessionIds == {"s1", "s2"}

\* the registry tools a session is sent
SessionToolNames ==
  {"add_site", "remove_site", "select_site", "list_sites", "get_active_site"}

\* the arguments a session sends: sites without credentials, the ids of its
\* registry or an id of the caller's
SessionInputs(name, ss) ==
  CASE name = "add_site" ->
         {ArgBag(SiteInput(Undefined, n, u, NoCredentials, TRUE), Undefined, FALSE) :
            n \in ServerNames, u \in ServerUrls}
    [] name \in {"remove_site", "select_site"} -> {IdBag(id) : id \in IdInputs(ss)}
    [] OTHER -> {EmptyBag}

\* the store the SiteStorage of a session works on
SessionStore(s) ==
  [sites |-> sessions[s].sites, activeSiteId |-> sessions[s].activeSiteId,
   file |-> file, now |-> now, uuid |-> nextUuid]

\* connections.set(sessionId, ...) after new SiteStorage has read the file
OpenSession(s) ==
  /\ s \notin DOMAIN sessions
  /\ resp.req = "none"
  /\ sessions' = [t \in DOMAIN sessions \cup {s} |->
                    IF t = s THEN [sites |-> file.sites, activeSiteId |-> file.activeSiteId]
                    ELSE sessions[t]]
  /\ UNCHANGED <<sites, activeSiteId, file, now, nextUuid, serverVars, last, resp, proc, inflight, http,
                 client, flight>>

\* req.on('close'): connections.delete(sessionId)
CloseSession(s) ==
  /\ s \in DOMAIN sessions
  /\ resp.req = "none"
  /\ sessions' = [t \in DOMAIN sessions \ {s} |-> sessions[t]]
  /\ UNCHANGED <<sites, activeSiteId, file, now, nextUuid, serverVars, last, resp, proc, inflight, http,
                 client, flight>>

\* POST /message for the session: its server's CallTool request handler
SessionCallToolRequest(s, name, args, backendOk) ==
  LET d == Dispatch(StartupHandlers, name, SessionStore(s), args, backendOk)
      changed == d.st.sites # sessions[s].sites
                   \/ d.st.activeSiteId # sessions[s].activeSiteId
  IN /\ s \in DOMAIN sessions
     /\ resp.req = "none"
     /\ now < MaxClock
     /\ Len(d.st.sites) <= MaxSites
     /\ sessions' = [sessions EXCEPT ![s] = [sites |-> d.st.sites,
                                             activeSiteId |-> d.st.activeSiteId]]
     /\ file' = d.st.file
     /\ nextUuid' = d.st.uuid
     /\ now' = IF changed THEN now + 1 ELSE now
     /\ resp' = Response("CallTool", name, d)
     /\ last' = [NoCall EXCEPT !.op = "session", !.id = s]
     /\ UNCHANGED <<sites, activeSiteId, serverVars, proc, inflight, http,
                    client, flight>>

SessionOpen == \E s \in SessionIds : OpenSession(s)

SessionClose == \E s \in SessionIds : CloseSession(s)

SessionCallTool ==
  /\ resp.req = "none"
  /\ \E s \in DOMAIN sessions : \E name \in SessionToolNames :
       \E args \in SessionInputs(name, sessions[s].sites) :
         SessionCallToolRequest(s, name, args, TRUE)

\* the transport of the session sends the response
SessionDeliver ==
  /\ resp.req # "none"
  /\ resp' = NoResponse
  /\ last' = NoCall
  /\ UNCHANGED <<storeVars, serverVars>>

SessionNext == SessionOpen \/ SessionClose \/ SessionCallTool \/ SessionDeliver

SessionSpec == Init /\ [][SessionNext]_vars

-----------------------------------------------------------------------------
(* The process: main() starts one server on stdio or the SSE server, whose  *)
(* GET /:account_key/sse handler builds a server and a transport for every  *)
(* session and whose POST /message handler looks the session up.            *)

\* --transport
Transports == {"stdio", "sse", "http"}

\* what fs finds at configPath
ConfigFiles == {"missing", "malformed", "valid"}

\* the session ids a POST /message carries; "s0" is the id of no transport
PostIds == SessionIds \cup {"s0"}

\* WordPressMcpServer.loadConfig: the parsed file, or the default
\* configuration when the file is missing or JSON.parse throws
loadConfig(content) == IF content = "valid" THEN "file" ELSE "default"

\* new WordPressMcpServer(options): the constructor calls renderInit without
\* awaiting it, so it returns with renderInit suspended at its first
\* statement, await getSiteByKey(account_key)
NewServer(content) ==
  [config |-> loadConfig(content), renderInit |-> "awaiting", store |-> "none",
   account |-> "unknown", connected |-> FALSE]

\* SiteStorage.loadConfig: the parsed file, or the default configuration when
\* the file is missing or JSON.parse throws
StorageLoadConfig(content) == IF content = "valid" THEN "file" ELSE "default"

\* how the promise of getSiteByKey settles: with the row of the account,
\* with no row, or rejected
getSiteByKey == {"found", "empty", "rejected"}

\* the configuration renderInit holds before its line 72: site_config_data,
\* built from the row of the account, or the loaded configuration
AccountConfig(settled, content) ==
  IF settled = "found" THEN "account" ELSE loadConfig(content)

\* renderInit after the await: this.config = site_config_data or
\* this.loadConfig(), then this.config = this.loadConfig() whatever the
\* branch, this.server = new Server(...), registerTools (whose
\* registerSiteTools builds the SiteStorage from configPath),
\* registerCentralizedToolHandlers; a rejection ends renderInit before them
renderInit(server, settled, content) ==
  IF settled # "rejected"
  THEN LET branch == [server EXCEPT !.config = AccountConfig(settled, content)]
       IN  [branch EXCEPT !.renderInit = "done", !.account = settled,
                          !.config = loadConfig(content),
                          !.store = StorageLoadConfig(content)]
  ELSE [server EXCEPT !.renderInit = "rejected"]

\* WordPressMcpServer.connect: this.server.connect(transport) throws a
\* TypeError while this.server is undefined
ConnectThrows(server) == server.renderInit # "done"

connect(server) ==
  IF ConnectThrows(server) THEN server ELSE [server EXCEPT !.connected = TRUE]

WithServer(servers, id, server) ==
  [t \in DOMAIN servers \cup {id} |-> IF t = id THEN server ELSE servers[t]]

\* the session map after a GET handler that leaves the entry of a failed
\* connect in it (a variant of ConnectionsAfterGet)
ConnectionsAfterGetKept(connections, s, thrown) == connections \cup {s}

\* connections.set(sessionId, ...) and, in the catch block of a failed
\* connect, connections.delete(sessionId)
ConnectionsAfterGet(connections, s, thrown) ==
  IF thrown THEN (connections \cup {s}) \ {s} ELSE connections \cup {s}

\* POST /message answers 400 when connections has no such session
PostStatusAccepted(connections, sessionId) == 202

PostStatus(connections, sessionId) ==
  IF sessionId \notin connections THEN 400 ELSE 202

\* transport.handlePostMessage of the session found in connections
PostDelivery(connections, sessionId) ==
  IF sessionId \notin connections THEN {} ELSE {sessionId}

OtherVars ==
  <<sites, activeSiteId, file, now, nextUuid, sessions, serverVars, last, resp,
    inflight, http, client, flight>>

ProcessInit ==
  /\ sites = <<>>
  /\ activeSiteId = Undefined
  /\ file = [sites |-> <<>>, activeSiteId |-> Undefined]
  /\ now = 0
  /\ nextUuid = 0
  /\ last = NoCall
  /\ pc = "new"
  /\ toolDefinitions = <<>>
  /\ toolHandlers = <<>>
  /\ callToolHandler = "none"
  /\ listToolsHandler = "none"
  /\ resp = NoResponse
  /\ sessions = <<>>
  /\ inflight = NoRequests
  /\ http = NoHttp
  /\ client = NoClient
  /\ flight = NoFlight
  /\ \E transport \in Transports : \E content \in ConfigFiles :
       proc = [NoProcess EXCEPT !.transport = transport, !.configFile = content]

\* main() with --transport=stdio: new WordPressMcpServer, server.run(transport);
\* run rethrows what connect throws and main().catch exits with code 1
MainStdio ==
  LET server == NewServer(proc.configFile)
  IN /\ proc.state = "new"
     /\ proc.transport = "stdio"
     /\ proc' = [proc EXCEPT
                   !.servers = WithServer(@, "main", connect(server)),
                   !.state = IF ConnectThrows(server) THEN "exit 1" ELSE "running"]
     /\ UNCHANGED OtherVars

\* main() with --transport=sse: startSseServer
MainSse ==
  /\ proc.state = "new"
  /\ proc.transport = "sse"
  /\ proc' = [proc EXCEPT !.state = "listening"]
  /\ UNCHANGED OtherVars

\* main() with any other transport: process.exit(1)
MainUnknownTransport ==
  /\ proc.state = "new"
  /\ proc.transport \notin {"stdio", "sse"}
  /\ proc' = [proc EXCEPT !.state = "exit 1"]
  /\ UNCHANGED OtherVars

\* GET /:account_key/sse, the whole handler: new WordPressMcpServer, new
\* SSEServerTransport, connections.set, await server.connect(transport) and,
\* when that throws, connections.delete and status 500
GetSseRequest(s) ==
  LET server == NewServer(proc.configFile)
      thrown == ConnectThrows(server)
  IN /\ proc.state = "listening"
     /\ proc.out.route = "none"
     /\ s \notin DOMAIN proc.servers
     /\ proc' = [proc EXCEPT
                   !.servers = WithServer(@, s, connect(server)),
                   !.connections = ConnectionsAfterGet(@, s, thrown),
                   !.out = [route |-> "GET", sessionId |-> s,
                            status |-> IF thrown THEN 500 ELSE 200,
                            deliveredTo |-> {}]]
     /\ UNCHANGED OtherVars

\* the promise of getSiteByKey settles and renderInit runs to its end
RenderInitResumes(id, settled) ==
  /\ proc.state \in {"listening", "running"}
  /\ id \in DOMAIN proc.servers
  /\ proc.servers[id].renderInit = "awaiting"
  /\ proc' = [proc EXCEPT !.servers[id] = renderInit(@, settled, proc.configFile)]
  /\ UNCHANGED OtherVars

\* req.on('close'): the client of the session has gone
ClientCloseRequest(s) ==
  /\ proc.state = "listening"
  /\ s \in DOMAIN proc.servers
  /\ s \notin proc.closed
  /\ proc' = [proc EXCEPT !.closed = @ \cup {s},
                          !.torn = @ \cup (proc.connections \cap {s}),
                          !.connections = @ \ {s}]
  /\ UNCHANGED OtherVars

\* close() of the object startSseServer returns: httpServer.close(), the
\* server of every connection closed, connections.clear()
Shutdown ==
  /\ proc.state = "listening"
  /\ proc.out.route = "none"
  /\ proc' = [proc EXCEPT !.state = "closed",
                          !.torn = @ \cup proc.connections,
                          !.connections = {}]
  /\ UNCHANGED OtherVars

\* POST /message?sessionId=...
PostMessageRequest(sessionId) ==
  /\ proc.state = "listening"
  /\ proc.out.route = "none"
  /\ proc' = [proc EXCEPT
                !.out = [route |-> "POST", sessionId |-> sessionId,
                         status |-> PostStatus(proc.connections, sessionId),
                         deliveredTo |-> PostDelivery(proc.connections, sessionId)]]
  /\ UNCHANGED OtherVars

GetSse == \E s \in SessionIds : GetSseRequest(s)

RenderInit == \E id \in DOMAIN proc.servers : \E settled \in getSiteByKey :
                RenderInitResumes(id, settled)

ClientClose == \E s \in SessionIds : ClientCloseRequest(s)

PostMessage == \E sessionId \in PostIds : PostMessageRequest(sessionId)

\* the client has read the answer
AnswerRead ==
  /\ proc.out.route # "none"
  /\ proc' = [proc EXCEPT !.out = NoAnswer]
  /\ UNCHANGED OtherVars

ProcessNext ==
  \/ MainStdio
  \/ MainSse
  \/ MainUnknownTransport
  \/ GetSse
  \/ RenderInit
  \/ ClientClose
  \/ PostMessage
  \/ Shutdown
  \/ AnswerRead

ProcessSpec == ProcessInit /\ [][ProcessNext]_vars

-----------------------------------------------------------------------------
(* The requests of one session.  transport.handlePostMessage hands the      *)
(* message to the CallTool request handler, an async function that returns  *)
(* the promise of the tool handler; a tool handler that calls the backend   *)
(* awaits the HTTP response, and the response of the request is sent when   *)
(* that promise has settled.  Nothing holds a message back while an earlier *)
(* one is awaited.                                                          *)

MaxRequests == 5

\* the tool handlers that answer from the registry and those that await
\* client.client.get / post / put / delete
HandlerKinds == {"registry", "backend"}

\* POST /message: the k-th message of the session reaches the request handler
DeliverRequest(kind) ==
  LET k == inflight.delivered + 1
  IN /\ inflight.delivered < MaxRequests
     /\ inflight' = [inflight EXCEPT
                       !.delivered = k,
                       !.awaiting = IF kind = "backend" THEN @ \cup {k} ELSE @,
                       !.responses = IF kind = "backend" THEN @ ELSE Append(@, k)]
     /\ UNCHANGED <<sites, activeSiteId, file, now, nextUuid, sessions, proc,
                    http, client, flight, serverVars, last, resp>>

\* the HTTP response a tool handler awaits has come: the handler returns
\* and the response of request k is sent
BackendSettles(k) ==
  /\ k \in inflight.awaiting
  /\ inflight' = [inflight EXCEPT !.awaiting = @ \ {k},
                                  !.responses = Append(@, k)]
  /\ UNCHANGED <<sites, activeSiteId, file, now, nextUuid, sessions, proc,
                 http, client, flight, serverVars, last, resp>>

PostToSession == \E kind \in HandlerKinds : DeliverRequest(kind)

BackendResponse == \E k \in inflight.awaiting : BackendSettles(k)

PipelineNext == PostToSession \/ BackendResponse

PipelineSpec == Init /\ [][PipelineNext]_vars

-----------------------------------------------------------------------------
(* The HTTP transport: POST /mcp files the request in pendingRequests under *)
(* its id, arms a timer and hands the message to onmessage; send resolves   *)
(* the entry filed under the id of the response; the timer deletes the      *)
(* entry filed under the id of its request and rejects.                     *)

MaxHttpRequests == 3

\* req.body.id
RequestIds == {"a", "b"}

HttpOther ==
  <<sites, activeSiteId, file, now, nextUuid, sessions, proc, inflight,
    client, flight, serverVars, last, resp>>

\* pendingRequests.set(requestId, entry)
MapSet(map, key, value) ==
  [k \in DOMAIN map \cup {key} |-> IF k = key THEN value ELSE map[k]]

\* pendingRequests.delete(requestId)
MapDelete(map, key) == [k \in DOMAIN map \ {key} |-> map[k]]

\* the requests still waiting that a response with this id could answer
Waiting(requests, id) ==
  {r \in DOMAIN requests : requests[r].id = id /\ requests[r].status = "pending"}

\* the server has been connected: transport.onmessage is set
SetOnMessage ==
  /\ ~http.onmessage
  /\ http' = [http EXCEPT !.onmessage = TRUE]
  /\ UNCHANGED HttpOther

\* POST /mcp with a valid bearer token: the whole handler up to
\* await responsePromise
PostMcp(id) ==
  LET r == Len(http.requests) + 1
  IN /\ r <= MaxHttpRequests
     /\ http' = [http EXCEPT
                   !.requests = Append(@, [id |-> id, status |-> "pending",
                                           timer |-> TRUE, answer |-> 0,
                                           arrived |-> FALSE]),
                   !.pendingRequests = MapSet(@, id, r),
                   !.forwarded = IF http.onmessage THEN @ \cup {r} ELSE @]
     /\ UNCHANGED HttpOther

\* send(message) with the response of the server to request q: the entry
\* filed under response.id is resolved and deleted and its timer cleared,
\* or the message is logged and dropped
Send(q) ==
  LET id == http.requests[q].id
      known == id \in DOMAIN http.pendingRequests
      owner == http.pendingRequests[id]
  IN /\ q \in http.forwarded
     /\ http' = [http EXCEPT
                   !.forwarded = @ \ {q},
                   !.requests = [r \in DOMAIN @ |->
                      IF known /\ r = owner
                      THEN [@[r] EXCEPT !.status = "answered", !.timer = FALSE,
                                        !.answer = q, !.arrived = TRUE]
                      ELSE IF r \in Waiting(http.requests, id)
                      THEN [@[r] EXCEPT !.arrived = TRUE]
                      ELSE @[r]],
                   !.pendingRequests = IF known THEN MapDelete(@, id) ELSE @]
     /\ UNCHANGED HttpOther

\* the timer of request r fires: pendingRequests.delete(requestId) and
\* reject(new Error('Request timeout')), answered with status 500
Timeout(r) ==
  /\ r \in DOMAIN http.requests
  /\ http.requests[r].timer
  /\ http' = [http EXCEPT
                !.requests[r] = [@ EXCEPT !.status = "timeout", !.timer = FALSE],
                !.pendingRequests = MapDelete(@, http.requests[r].id)]
  /\ UNCHANGED HttpOther

HttpPost == \E id \in RequestIds : PostMcp(id)

HttpSend == \E q \in http.forwarded : Send(q)

HttpTimeout == \E r \in DOMAIN http.requests : Timeout(r)

HttpNext == SetOnMessage \/ HttpPost \/ HttpSend \/ HttpTimeout

HttpSpec == Init /\ [][HttpNext]_vars

\* setTimeout: a timer that is armed and not cleared fires
HttpLiveSpec == HttpSpec /\ \A r \in 1..MaxHttpRequests : WF_vars(Timeout(r))

-----------------------------------------------------------------------------
(* The WordPress client.  Strings are sequences of character codes; a set   *)
(* of headers is a function from header names to strings; the empty string  *)
(* stands for every falsy option.                                           *)

\* 'Basic ' and 'Bearer t'
BasicPrefix == <<66, 97, 115, 105, 99, 32>>

BearerToken == <<66, 101, 97, 114, 101, 114, 32, 116>>

\* 'application/json'
ApplicationJson ==
  <<97, 112, 112, 108, 105, 99, 97, 116, 105, 111, 110, 47, 106, 115, 111, 110>>

\* the character of a 6-bit value in the base64 alphabet
Base64Char(v) ==
  IF v < 26 THEN 65 + v
  ELSE IF v < 52 THEN 97 + (v - 26)
  ELSE IF v < 62 THEN 48 + (v - 52)
  ELSE IF v = 62 THEN 43 ELSE 47

ByteAt(bytes, i) == IF i <= Len(bytes) THEN bytes[i] ELSE 0

\* the four characters of the g-th group of three bytes, padded with '='
Base64Group(bytes, g) ==
  LET n == ByteAt(bytes, 3 * g - 2) * 65536 + ByteAt(bytes, 3 * g - 1) * 256
             + ByteAt(bytes, 3 * g)
      count == Len(bytes) - 3 * (g - 1)
  IN <<Base64Char(n \div 262144),
       Base64Char((n \div 4096) % 64),
       IF count >= 2 THEN Base64Char((n \div 64) % 64) ELSE 61,
       IF count >= 3 THEN Base64Char(n % 64) ELSE 61>>

\* Buffer.from(string).toString('base64')
Base64(bytes) ==
  [i \in 1..(4 * ((Len(bytes) + 2) \div 3)) |->
     Base64Group(bytes, ((i - 1) \div 4) + 1)[((i - 1) % 4) + 1]]

\* { ...a, ...b }
Spread(a, b) ==
  [k \in DOMAIN a \cup DOMAIN b |-> IF k \in DOMAIN b THEN b[k] ELSE a[k]]

\* createAuthHeaders(credentials)
createAuthHeaders(username, applicationPassword) ==
  [k \in {"Authorization"} |->
     BasicPrefix \o Base64(username \o <<58>> \o applicationPassword)]

\* new WordPressClient(options)
WordPressClient(username, applicationPassword, defaultHeaders) ==
  [built |-> TRUE, username |-> username,
   applicationPassword |-> applicationPassword,
   defaultHeaders |-> defaultHeaders,
   authHeaders |-> IF username # <<>> /\ applicationPassword # <<>>
                   THEN createAuthHeaders(username, applicationPassword)
                   ELSE <<>>,
   sent |-> <<>>, lastResponse |-> <<>>, listed |-> <<>>]

\* WordPressClient.createHeaders(additionalHeaders)
createHeaders(c, additionalHeaders) ==
  Spread(Spread(Spread([k \in {"Content-Type", "Accept"} |-> ApplicationJson],
                       c.defaultHeaders), c.authHeaders), additionalHeaders)

\* the usernames and application passwords of a site record: '', 'u', 'u:'
\* and '', 'p', 'pqr'
Usernames == {<<>>, <<117>>, <<117, 58>>}

ApplicationPasswords == {<<>>, <<112>>, <<112, 113, 114>>}

\* the default and the per-request headers a caller supplies
SuppliedHeaders ==
  {<<>>, [k \in {"Authorization"} |-> BearerToken],
   [k \in {"Accept"} |-> <<42>>]}

Methods == {"GET", "POST", "PUT", "PATCH", "DELETE"}

ClientOther ==
  <<sites, activeSiteId, file, now, nextUuid, sessions, proc, inflight, http,
    flight, serverVars, last, resp>>

NewClient(username, applicationPassword, defaultHeaders) ==
  /\ ~client.built
  /\ client' = WordPressClient(username, applicationPassword, defaultHeaders)
  /\ UNCHANGED ClientOther

\* WordPressClient.request(options) up to fetch(url, requestOptions)
request(method, headers) ==
  /\ client.built
  /\ client' = [client EXCEPT
                  !.sent = <<[method |-> method,
                              headers |-> createHeaders(client, headers)]>>]
  /\ UNCHANGED ClientOther

ClientBuild ==
  \E username \in Usernames : \E applicationPassword \in ApplicationPasswords :
    \E defaultHeaders \in SuppliedHeaders :
      NewClient(username, applicationPassword, defaultHeaders)

ClientRequest ==
  \E method \in Methods : \E headers \in SuppliedHeaders : request(method, headers)

\* the X-WP-Total and X-WP-TotalPages headers of a backend response:
\* '0' and '0', '2' and '1', '12' and '2'
BackendHeaders == {<<<<48>>, <<48>>>>, <<<<50>>, <<49>>>>, <<<<49, 50>>, <<50>>>>}

\* parseInt(text, 10) of a string of decimal digits
RECURSIVE ParseInt(_)
ParseInt(text) ==
  IF text = <<>> THEN 0
  ELSE 10 * ParseInt(SubSeq(text, 1, Len(text) - 1)) + (text[Len(text)] - 48)

\* parseInt(client.client.lastResponse?.headers?.get(header) || '0', 10)
HeaderOfLastResponse(c, header) ==
  ParseInt(IF c.lastResponse = <<>> THEN <<48>> ELSE c.lastResponse[1][header])

\* the list_posts and list_pages handlers: client.client.get(endpoint,
\* params), in which request() returns the parsed body of the backend
\* response and assigns nothing to the client, then the success envelope
\* with total and total_pages read from client.client.lastResponse; a failed
\* request gives the error envelope
ListItems(tool, backendOk, total, totalPages) ==
  LET asked == [client EXCEPT
                  !.sent = <<[method |-> "GET",
                              headers |-> createHeaders(client, <<>>)]>>]
  IN /\ client.built
     /\ client' = [asked EXCEPT
          !.listed =
             <<[tool |-> tool,
                status |-> IF backendOk THEN "success" ELSE "error",
                total |-> IF backendOk
                          THEN HeaderOfLastResponse(asked, "X-WP-Total") ELSE 0,
                total_pages |-> IF backendOk
                                THEN HeaderOfLastResponse(asked, "X-WP-TotalPages")
                                ELSE 0,
                backend |-> [k \in {"X-WP-Total", "X-WP-TotalPages"} |->
                               IF k = "X-WP-Total" THEN total ELSE totalPages]]>>]
     /\ UNCHANGED ClientOther

ClientList ==
  \E tool \in {"list_posts", "list_pages"} : \E backendOk \in BOOLEAN :
    \E headers \in BackendHeaders :
      ListItems(tool, backendOk, headers[1], headers[2])

ClientNext == ClientBuild \/ ClientRequest \/ ClientList

ClientSpec == Init /\ [][ClientNext]_vars

-----------------------------------------------------------------------------
(* Properties of the site registry, stated over Spec.                       *)

\* the steps of a caller, recognised by the outcome they leave
Calls(op) == last.op = "none" /\ last'.op = op

Succeeded(op) == last.op = op /\ last.err = "ok"

RegistryUnchanged ==
  UNCHANGED <<sites, activeSiteId, file, nextUuid>>

\* a url without one trailing slash, as the specification normalizes it
WithoutTrailingSlash(url) ==
  IF url # <<>> /\ url[Len(url)] = "/" THEN SubSeq(url, 1, Len(url) - 1) ELSE url

LowerCase(url) == [i \in DOMAIN url |-> IF url[i] = "A" THEN "a" ELSE url[i]]

\* C1: in every reachable state no two stored records share a name and no
\* two share a normalized url.
C1_NoSharedNameOrUrl ==
  \A i, j \in DOMAIN sites :
    i # j => /\ sites[i].name # sites[j].name
             /\ WithoutTrailingSlash(sites[i].url) # WithoutTrailingSlash(sites[j].url)

\* what an add that meets a conflict must do: fail, change nothing, and
\* report the conflict when the site itself is well-formed and its
\* credential check did not fail first
AddRejected ==
  /\ RegistryUnchanged
  /\ last'.err # "ok"
  /\ (~Falsy(last'.name) /\ ~FalsyUrl(last'.url) /\ last'.err # "ValidationFailed")
       => last'.err \in {"DuplicateName", "DuplicateUrl"}

\* C2 (as written): add(site) fails with a conflict error and leaves the
\* registry unchanged whenever an existing record has the same name or a url
\* equal after normalization, a url differing only in letter case or only in
\* a trailing slash included.
C2_AddConflictAnyCase ==
  [][(/\ Calls("addSite")
      /\ \E i \in DOMAIN sites :
           \/ sites[i].name = last'.name
           \/ LowerCase(WithoutTrailingSlash(sites[i].url))
                = LowerCase(WithoutTrailingSlash(last'.url)))
     => AddRejected]_vars

\* an existing record has the name, or the url up to one trailing slash
ConflictsWith(ss, name, url) ==
  \E i \in DOMAIN ss :
    \/ ss[i].name = name
    \/ WithoutTrailingSlash(ss[i].url) = WithoutTrailingSlash(url)

\* C2 (amended): add(site) fails with a conflict error and leaves the
\* registry unchanged whenever an existing record has the same name or a url
\* equal after removing one trailing slash, compared case-sensitively; a
\* well-formed site whose url differs from every stored url in more than a
\* trailing slash, be it only in letter case, and whose name is new is added.
C2_AddConflict ==
  [][Calls("addSite") =>
       IF ConflictsWith(sites, last'.name, last'.url)
       THEN AddRejected
       ELSE (~Falsy(last'.name) /\ ~FalsyUrl(last'.url) /\ last'.err # "ValidationFailed")
              => /\ last'.err = "ok"
                 /\ sites' = Append(sites, sites'[Len(sites')])
                 /\ sites'[Len(sites')].name = last'.name
                 /\ sites'[Len(sites')].url = last'.url]_vars

\* an add was rejected for its url although no stored url is literally that
\* url: the two differ in a trailing slash
C2_Witness ==
  /\ last.op = "addSite"
  /\ last.err = "DuplicateUrl"
  /\ \A i \in DOMAIN sites : sites[i].url # last.url /\ sites[i].name # last.name

\* every field of s has the same value on the stored record
Equivalent(found, s) ==
  /\ found # Null
  /\ found[1].name = s.name
  /\ found[1].url = s.url
  /\ found[1].username = s.username
  /\ found[1].applicationPassword = s.applicationPassword
  /\ found[1].consumerKey = s.consumerKey
  /\ found[1].consumerSecret = s.consumerSecret

\* C3: after add(s) succeeds, getById, getByName and getByUrl each return a
\* record equivalent to s; after remove(id) succeeds, getById(id) is null.
C3_AddThenLookup ==
  [][/\ \A site \in AddInputs :
          (AddSiteCall(site, TRUE, TRUE) /\ last'.err = "ok")
            => /\ Equivalent(getSiteById(sites', last'.id), site)
               /\ Equivalent(getSiteByName(sites', site.name), site)
               /\ Equivalent(getSiteByUrl(sites', site.url), site)
     /\ (Calls("removeSite") /\ last'.err = "ok")
          => getSiteById(sites', last'.id) = Null]_vars

\* C4: every stored record has an id unique among the stored records.
C4_UniqueIds ==
  \A i, j \in DOMAIN sites : i # j => sites[i].id # sites[j].id

\* C5: update(id, patch) fails with NotFound when id is unknown; it is
\* rejected for a conflict only when a record other than the one updated
\* holds the patched name or the patched url after normalization; on every
\* failure the registry is unchanged.
C5_UpdateRejection ==
  [][Calls("updateSite") =>
       LET index == FindIndex([i \in DOMAIN sites |-> sites[i].id = last'.id])
       IN /\ index = 0 => last'.err = "NotFound"
          /\ last'.err = "DuplicateName"
               => \E i \in DOMAIN sites : i # index /\ sites[i].name = last'.name
          /\ last'.err = "DuplicateUrl"
               => \E i \in DOMAIN sites :
                    /\ i # index
                    /\ WithoutTrailingSlash(sites[i].url) = WithoutTrailingSlash(last'.url)
          /\ last'.err # "ok" => RegistryUnchanged]_vars

-----------------------------------------------------------------------------
(* Properties of the dispatch, stated over ServerSpec.                      *)

\* the JSON object a client decodes from the envelope's text
HasMember(text, key) == \E i \in DOMAIN text : text[i].key = key

Get(text, key) == text[MinOf({i \in DOMAIN text : text[i].key = key})].value

Answered(r) == r.req = "CallTool"

\* an envelope with one text element whose object has this status
EnvelopeWithStatus(r, status) ==
  /\ r.kind = "result"
  /\ Len(r.content) = 1
  /\ r.content[1].type = "text"
  /\ HasMember(r.content[1].text, "status")
  /\ Get(r.content[1].text, "status") = <<status>>

MessageIn(r) == Get(r.content[1].text, "message")

\* C7: for a tool name without a registered handler CallTool returns an
\* envelope with isError true whose text decodes to status "error" and
\* message "Unknown tool: <name>"; it does not raise.
C7_UnknownToolEnvelope ==
  (Answered(resp) /\ resp.tool \notin DOMAIN toolHandlers)
    => /\ EnvelopeWithStatus(resp, "error")
       /\ resp.isError
       /\ HasMember(resp.content[1].text, "message")
       /\ MessageIn(resp) = <<"Unknown tool: ", resp.tool>>

\* C8: for every registered tool and every argument bag, a request without
\* an arguments field included, no exception escapes CallTool: what the
\* handler throws comes back as the error envelope.
C8_NoExceptionEscapes ==
  (Answered(resp) /\ resp.tool \in DOMAIN toolHandlers)
    => /\ resp.kind # "raised"
       /\ resp.isError => EnvelopeWithStatus(resp, "error")

\* the text carries the part
Carries(text, part) == \E i \in DOMAIN text : text[i] = part

\* the request a step answers, when its backend call threw
BackendThrew == resp.req = "none" /\ resp'.req = "CallTool" /\ resp'.backend = "threw"

ServerUnchanged ==
  UNCHANGED <<toolDefinitions, toolHandlers, callToolHandler, listToolsHandler,
              sites, activeSiteId, file>>

ThrownMessageReturned ==
  /\ EnvelopeWithStatus(resp', "error")
  /\ resp'.isError
  /\ HasMember(resp'.content[1].text, "message")
  /\ Carries(MessageIn(resp'), BackendMessage)

\* C9 (as written): for every registered tool whose backend call throws,
\* CallTool returns an envelope with isError true carrying the thrown
\* message, and the tool registry, the handler table, the site store and the
\* active pointer are unchanged by the call.
C9_BackendThrowAnyTool ==
  [][BackendThrew => (ThrownMessageReturned /\ ServerUnchanged)]_vars

\* C9 (amended): the same for every registered tool but
\* test_site_connectivity, which answers a throwing backend with a success
\* envelope reporting reachable false; the state is unchanged in both cases.
C9_BackendThrow ==
  [][BackendThrew =>
       /\ ServerUnchanged
       /\ IF resp'.tool = "test_site_connectivity"
          THEN /\ EnvelopeWithStatus(resp', "success")
               /\ ~resp'.isError
               /\ Get(resp'.content[1].text, "reachable") = <<"false">>
          ELSE ThrownMessageReturned]_vars

\* list_posts on a stored site met a throwing backend
C9_Witness ==
  /\ resp.req = "CallTool"
  /\ resp.tool = "list_posts"
  /\ resp.backend = "threw"
  /\ resp.isError
  /\ sites # <<>>

\* C10: every result a registered handler returns is an envelope with exactly
\* one content element of type "text" whose text is a JSON object with status
\* "success" or "error"; isError is true exactly when the status is "error",
\* and an error carries a message.
C10_EnvelopeShape ==
  (Answered(resp) /\ resp.kind = "result")
    => /\ Len(resp.content) = 1
       /\ resp.content[1].type = "text"
       /\ HasMember(resp.content[1].text, "status")
       /\ Get(resp.content[1].text, "status") \in {<<"success">>, <<"error">>}
       /\ resp.isError <=> Get(resp.content[1].text, "status") = <<"error">>
       /\ resp.isError => HasMember(resp.content[1].text, "message")

\* get_site answered a lookup that found nothing while a site is stored
C10_Witness ==
  /\ Answered(resp)
  /\ resp.tool = "get_site"
  /\ resp.kind = "result"
  /\ resp.isError
  /\ sites # <<>>

-----------------------------------------------------------------------------
(* Properties of the legacy registration path, stated over LegacySpec.      *)

\* C11: with the same modules registered in the same order, the legacy
\* server returns the ListTools payload of the centralized registry and, for
\* every tool name, registered or not, and every argument bag, the CallTool
\* result the centralized server returns on the same store.
C11_LegacyEquivalent ==
  [][/\ (resp.req = "none" /\ resp'.req = "ListTools")
          => resp'.tools = StartupDefinitions
     /\ \A name \in ToolNames \cup UnregisteredNames :
          \A args \in ToolInputs(name, sites) : \A backendOk \in BOOLEAN :
            LegacyCallToolRequest(name, args, backendOk)
              => LET d == Dispatch(StartupHandlers, name, Store, args, backendOk)
                 IN /\ resp' = Response("CallTool", name, d)
                    /\ sites' = d.st.sites
                    /\ activeSiteId' = d.st.activeSiteId]_vars

-----------------------------------------------------------------------------
(* Properties of the tool registry, stated over ServerSpec.                 *)

\* C12: ListTools returns exactly the descriptors registered at startup:
\* the modules in the order they were registered, the descriptors of a
\* module in array order, nothing added, dropped or reordered; no request
\* changes the registry, so every ListTools request has the same payload.
C12_ListToolsPayload ==
  [][/\ (resp.req = "none" /\ resp'.req = "ListTools")
          => /\ resp'.tools = StartupDefinitions
             /\ resp'.tools = toolDefinitions
     /\ pc = "ready" => toolDefinitions' = toolDefinitions]_vars

\* ListTools is answered after a CallTool has changed the site store
C12_Witness ==
  /\ resp.req = "ListTools"
  /\ resp.tools = StartupDefinitions
  /\ Len(resp.tools) = 26
  /\ sites # <<>>

-----------------------------------------------------------------------------
(* Properties of the registration interface, stated over RegistrySpec.      *)

Count(seq, x) == Cardinality({i \in DOMAIN seq : seq[i] = x})

\* the mark of the handler that answered
AnsweredBy(r) == Get(r.content[1].text, "handler")

\* C13: every registerToolDefinition call appends one descriptor, a name
\* registered before included, and ListTools returns them all; the handler
\* table holds one entry per name, registerToolHandler replacing the entry
\* of a name bound before, and CallTool invokes the handler bound last.
C13_ReRegistration ==
  [][/\ \A name \in HostToolNames :
          RegisterToolDefinitionCall(name)
            => /\ Len(toolDefinitions') = Len(toolDefinitions) + 1
               /\ Count(toolDefinitions', name) = Count(toolDefinitions, name) + 1
               /\ toolDefinitions' = Append(toolDefinitions, name)
     /\ (last'.op = "registerToolHandler" /\ last' # last)
          => /\ DOMAIN toolHandlers' = DOMAIN toolHandlers \cup {last'.name}
             /\ toolHandlers'[last'.name] = last'.id
             /\ \A n \in DOMAIN toolHandlers : n # last'.name => toolHandlers'[n] = toolHandlers[n]
     /\ (resp.req = "none" /\ resp'.req = "ListTools") => resp'.tools = toolDefinitions
     /\ (resp.req = "none" /\ resp'.req = "CallTool" /\ last.op = "registerToolHandler"
           /\ resp'.tool = last.name)
          => /\ EnvelopeWithStatus(resp', "success")
             /\ AnsweredBy(resp') = <<last.id>>]_vars

\* a name with two descriptors is called: the handler bound second answers,
\* not the one it replaced
C13_Witness ==
  /\ resp.req = "CallTool"
  /\ Count(toolDefinitions, resp.tool) = 2
  /\ last.op = "registerToolHandler"
  /\ last.name = resp.tool
  /\ last.url = <<"h1">>
  /\ resp.kind = "result"
  /\ AnsweredBy(resp) = <<"h2">>

-----------------------------------------------------------------------------
(* Properties of the site-scoped tools, stated over ServerSpec.             *)

SiteScopedNames ==
  Range(PostToolNames) \cup Range(PageToolNames) \cup Range(ProductToolNames)
  \cup Range(OrderToolNames)

\* C14: for every post, page, product and order tool, a CallTool whose
\* arguments carry the site_id of a stored site sends its request through
\* the client of that site, and a CallTool without site_id sends it through
\* the client of the active site whenever an active site is set.
C14_SiteResolution ==
  [][\A name \in SiteScopedNames : \A args \in ToolInputs(name, sites) :
       \A backendOk \in BOOLEAN :
         (CallToolRequest(name, args, backendOk) /\ args.present)
           => /\ (~Falsy(args.site_id) /\ getSiteById(sites, args.site_id) # Null)
                   => (resp'.backend # "none" /\ resp'.site = args.site_id)
              /\ (Falsy(args.site_id) /\ getActiveSite(sites, activeSiteId) # Null)
                   => (resp'.backend # "none" /\ resp'.site = activeSiteId)]_vars

\* an error envelope, flagged, whose message is the text
ErrorWithMessage(r, message) ==
  /\ EnvelopeWithStatus(r, "error")
  /\ r.isError
  /\ HasMember(r.content[1].text, "message")
  /\ MessageIn(r) = message

\* C15: a CallTool for list_products, or any other site-scoped tool, that
\* carries no site_id while no active site is set returns an error envelope
\* with isError true that reports the missing active site, and no backend
\* request is issued.
C15_NoActiveSite ==
  [][\A name \in SiteScopedNames : \A args \in ToolInputs(name, sites) :
       \A backendOk \in BOOLEAN :
         (/\ CallToolRequest(name, args, backendOk)
          /\ args.present
          /\ Falsy(args.site_id)
          /\ getActiveSite(sites, activeSiteId) = Null)
           => /\ ErrorWithMessage(resp', <<"[SiteManager] No active site set">>)
              /\ resp'.backend = "none"]_vars

\* C16: a CallTool for any site-scoped tool whose site_id matches no stored
\* record returns an error envelope that reports the site as not found, and
\* no backend request is issued.
C16_SiteNotFound ==
  [][\A name \in SiteScopedNames : \A args \in ToolInputs(name, sites) :
       \A backendOk \in BOOLEAN :
         (/\ CallToolRequest(name, args, backendOk)
          /\ args.present
          /\ ~Falsy(args.site_id)
          /\ getSiteById(sites, args.site_id) = Null)
           => /\ ErrorWithMessage(resp', <<"[SiteManager] Site not found: ", args.site_id>>)
              /\ resp'.backend = "none"]_vars

-----------------------------------------------------------------------------
(* The round trip from ListTools to CallTool, stated over ServerSpec.       *)

\* the argument bags that carry the required properties of the tool's
\* inputSchema and nothing else: name and url for add_site, id for the
\* tools that name a site (get_site asks for id or name), and for the post,
\* page, product and order tools only properties the handlers pass on to
\* the backend
MinimalInputs(name, ss) ==
  CASE name = "add_site" ->
         {ArgBag(SiteInput(Undefined, n, u, NoCredentials, TRUE), Undefined, FALSE) :
            n \in ServerNames, u \in ServerUrls}
    [] name \in {"get_site", "update_site", "remove_site", "select_site",
                 "get_site_info"} ->
         {IdBag(id) : id \in IdInputs(ss)}
    [] OTHER -> {EmptyBag}

\* the call answers with an envelope whose status is "success"
Succeeds(d) ==
  /\ d.out.kind = "result"
  /\ Len(d.out.content) = 1
  /\ HasMember(d.out.content[1].text, "status")
  /\ Get(d.out.content[1].text, "status") = <<"success">>

\* C17: for every descriptor name ListTools returns, a CallTool with that
\* name and minimal arguments that satisfy the descriptor's schema, on a
\* registry holding one site that is the active one and against a backend
\* that answers every request, returns an envelope whose status is
\* "success".
C17_RoundTrip ==
  (pc = "ready" /\ Len(sites) = 1 /\ getActiveSite(sites, activeSiteId) # Null)
    => \A i \in DOMAIN toolDefinitions :
         \E args \in MinimalInputs(toolDefinitions[i], sites) :
           Succeeds(Dispatch(toolHandlers, toolDefinitions[i], Store, args, TRUE))

\* the tool is in the advertised list and a CallTool for it reaches a handler
AdvertisedAndCallable(names) ==
  /\ Range(names) \subseteq Range(toolDefinitions)
  /\ Range(names) \subseteq DOMAIN toolHandlers
  /\ \A n \in Range(names) :
       Dispatch(toolHandlers, n, Store, EmptyBag, TRUE).out.kind = "result"

\* C18: after startup the advertised tool list contains the customer tools
\* list_customers, create_customer, update_customer and delete_customer
\* together with the post, page, product and order tools, and each of them
\* can be called.
C18_CustomerToolsAdvertised ==
  pc = "ready"
    => /\ AdvertisedAndCallable(CustomerToolNames)
       /\ AdvertisedAndCallable(PostToolNames)
       /\ AdvertisedAndCallable(PageToolNames)
       /\ AdvertisedAndCallable(ProductToolNames)
       /\ AdvertisedAndCallable(OrderToolNames)

-----------------------------------------------------------------------------
(* Properties of the configuration file, stated over DiskSpec.              *)

MutatingCalls == {"addSite", "updateSite", "removeSite", "setActiveSite"}

\* the errors of a call that failed a validation, a uniqueness or an
\* existence check
CheckFailures ==
  {"MissingName", "MissingUrl", "DuplicateName", "DuplicateUrl", "NotFound",
   "ValidationFailed", "false"}

\* C19: after every successful add, update, remove and setActive the sites
\* and the activeSiteId of the persisted document equal those in memory; a
\* call that fails a validation or uniqueness check writes nothing to the
\* backing store (lookups are reads of the in-memory configuration: no
\* step of theirs exists that could write).
C19_PersistedEqualsMemory ==
  [][/\ (last.op = "none" /\ last'.op \in MutatingCalls /\ last'.err = "ok")
          => /\ file'.sites = sites'
             /\ file'.activeSiteId = activeSiteId'
     /\ (last.op = "none" /\ last'.op \in MutatingCalls /\ last'.err \in CheckFailures)
          => file' = file]_vars

\* setActiveSite has succeeded on a registry of two records and the file
\* holds both and the pointer
C19_Witness ==
  /\ Succeeded("setActiveSite")
  /\ Len(sites) = 2
  /\ file.sites = sites
  /\ file.activeSiteId = activeSiteId
  /\ activeSiteId # Undefined

-----------------------------------------------------------------------------
(* Properties of the SSE sessions, stated over SessionSpec.                 *)

\* what a lookup through the session returns: the answer of list_sites and
\* the answer of get_active_site
Observes(s) ==
  <<Dispatch(StartupHandlers, "list_sites", SessionStore(s), EmptyBag, TRUE).out,
    Dispatch(StartupHandlers, "get_active_site", SessionStore(s), EmptyBag, TRUE).out>>

\* C20: concurrent SSE sessions share one site registry: after a site has
\* been added, updated, removed or selected through one session, a lookup
\* through any other open session returns what a lookup through that
\* session returns.
C20_SharedRegistry ==
  \A s, t \in DOMAIN sessions : Observes(s) = Observes(t)

-----------------------------------------------------------------------------
(* Properties of the process and its SSE sessions, stated over ProcessSpec. *)

\* the step in which a handler answers a request on the route
Answers(route, sessionId) ==
  /\ proc.out.route = "none"
  /\ proc'.out.route = route
  /\ proc'.out.sessionId = sessionId

\* the session was created by a GET and its client has not gone
Created(s) == s \in DOMAIN proc.servers /\ s \notin proc.closed

\* C21: a GET /:account_key/sse establishes a session: when its handler has
\* finished, the new session id is in the session map with a server that is
\* connected to the transport of the session, and a later POST /message
\* carrying the id of a session so created is delivered to the transport of
\* that session and to no other.
C21_SessionEstablished ==
  [][/\ \A s \in SessionIds :
          Answers("GET", s) => /\ s \in proc'.connections
                               /\ proc'.servers[s].connected
     /\ \A s \in SessionIds :
          Answers("POST", s) /\ Created(s) => proc'.out.deliveredTo = {s}]_vars

\* C22: a POST /message whose sessionId is not in the session map (never
\* created, already disconnected, or removed after a failed connect) is
\* answered with status 400 and is delivered to no session.
C22_UnknownSession400 ==
  [][\A sessionId \in PostIds :
       Answers("POST", sessionId) /\ sessionId \notin proc.connections
         => proc'.out.status = 400 /\ proc'.out.deliveredTo = {}]_vars

\* a session removed after its connect failed, and then disconnected, has
\* been sent a message
C22_Witness ==
  /\ proc.out.route = "POST"
  /\ proc.out.sessionId \in DOMAIN proc.servers
  /\ proc.out.sessionId \in proc.closed
  /\ proc.out.status = 400
  /\ "s0" \notin DOMAIN proc.servers

\* C27: a malformed configuration file is an unrecoverable startup error: the
\* process terminates instead of starting a server or a site store on some
\* other configuration, so no server exists while the file is malformed.
C27_MalformedConfigTerminates ==
  proc.configFile = "malformed" => DOMAIN proc.servers = {}

\* the step in which a handler builds a server and connects it
Connects(id) == id \notin DOMAIN proc.servers /\ id \in DOMAIN proc'.servers

\* C28: a server has its protocol server object created and its descriptors
\* and handlers registered before it is connected to a transport, on the stdio
\* path and on the SSE path: every connect reaches a server whose renderInit
\* has run to its end.
C28_InitializedBeforeConnect ==
  [][\A id \in SessionIds \cup {"main"} :
       Connects(id) => proc'.servers[id].renderInit = "done"]_vars

-----------------------------------------------------------------------------
(* Properties of the requests of one session, stated over PipelineSpec.     *)

InRequestOrder(responses) ==
  \A i, j \in DOMAIN responses : i < j => responses[i] < responses[j]

\* C23: within one session requests are processed strictly in the order of
\* their delivery with no pipelining: the handling of a request does not
\* begin while an earlier request has not produced its response, and the
\* responses are sent in request order.
C23_NoPipelining ==
  [][/\ inflight'.delivered # inflight.delivered => inflight.awaiting = {}
     /\ InRequestOrder(inflight'.responses)]_vars

-----------------------------------------------------------------------------
(* Properties of the HTTP transport, stated over HttpLiveSpec.              *)

Completed(r) == r \in DOMAIN http.requests /\ http.requests[r].status # "pending"

Requested(r) == r \in DOMAIN http.requests

\* the step in which the response of the server to request q is sent
Sends(q) == q \in http.forwarded /\ q \notin http'.forwarded

\* C24: every request accepted by /mcp completes: it is answered with the
\* response whose id equals its request id or, only if no such response has
\* arrived before its timeout, it fails with "Request timeout"; a completed
\* request has no entry in the pending-request table, and a response that
\* arrives after the timeout of its request is dropped without effect.
C24_RequestCompletes ==
  /\ \A r \in 1..MaxHttpRequests : Requested(r) ~> Completed(r)
  /\ [][\A r \in DOMAIN http'.requests :
          LET entry == http'.requests[r]
          IN /\ entry.status = "answered"
                  => http'.requests[entry.answer].id = entry.id
             /\ entry.status = "timeout" => ~entry.arrived
             /\ entry.status # "pending"
                  => ~(entry.id \in DOMAIN http'.pendingRequests
                        /\ http'.pendingRequests[entry.id] = r)
             /\ Sends(r) /\ http.requests[r].status = "timeout"
                  => /\ http'.requests = http.requests
                     /\ http'.pendingRequests = http.pendingRequests]_vars

-----------------------------------------------------------------------------
(* Properties of the WordPress client, stated over ClientSpec.              *)

\* C25: a client built for a site record that has a username and an
\* application password sends the header Authorization: Basic
\* base64(username:applicationPassword) on every request, whatever the
\* method and whatever default or per-request headers are supplied.
C25_BasicAuthorization ==
  client.username # <<>> /\ client.applicationPassword # <<>> /\ client.sent # <<>>
    => /\ "Authorization" \in DOMAIN client.sent[1].headers
       /\ client.sent[1].headers["Authorization"]
            = BasicPrefix \o Base64(client.username \o <<58>>
                                      \o client.applicationPassword)

-----------------------------------------------------------------------------
(* Stored urls, stated over Spec.                                           *)

EndsInSlash(url) == url # <<>> /\ url[Len(url)] = "/"

\* C26: the url of every stored site record is normalized: no record is
\* ever stored, by add or by update, with a url that ends in a slash,
\* neither in memory nor in the configuration file.
C26_StoredUrlNormalized ==
  /\ \A i \in DOMAIN sites : ~EndsInSlash(sites[i].url)
  /\ \A i \in DOMAIN file.sites : ~EndsInSlash(file.sites[i].url)

-----------------------------------------------------------------------------
(* Writes of concurrent sessions, stated over SessionSpec.                  *)

\* the step in which the server of session s handles a tool call
HandledBy(s) == resp.req = "none" /\ last'.op = "session" /\ last'.id = s

StoreOf(s) ==
  [sites |-> sessions[s].sites, activeSiteId |-> sessions[s].activeSiteId]

\* C29: sessions write the one backing file each from its own in-memory
\* store: a call that changes the store of its session or the file leaves
\* the file equal to the store of the session that made it, whatever
\* another session had written before.
C29_LastWriterWins ==
  [][\A s \in DOMAIN sessions :
       HandledBy(s) /\ (sessions'[s] # sessions[s] \/ file' # file)
         => file' = StoreOf(s)']_vars

\* two sessions have each added a site; the file equals the store of the
\* one that wrote last and lacks the record the other has added
C29_Witness ==
  \E s, t \in DOMAIN sessions :
    /\ s # t
    /\ last.op = "session" /\ last.id = s
    /\ resp.tool = "add_site"
    /\ file = StoreOf(s)
    /\ file.sites # <<>>
    /\ \E i \in DOMAIN sessions[t].sites :
         \A j \in DOMAIN file.sites : file.sites[j].id # sessions[t].sites[i].id

-----------------------------------------------------------------------------
(* Advertised and callable tools, stated over ServerSpec.                   *)

\* C30: after startup the set of tool names that have a bound handler equals
\* the set of tool names ListTools advertises: every advertised tool can be
\* called and every callable tool is advertised.
C30_HandlersEqualAdvertised ==
  pc = "ready" => DOMAIN toolHandlers = Range(toolDefinitions)

-----------------------------------------------------------------------------
(* The active site, stated over Spec.                                       *)

NoActiveSite == getActiveSite(sites, activeSiteId) = Null

\* C31: the active site changes only through a successful setActive: once
\* getActive() returns null it keeps returning null until the next
\* successful setActiveSite, whatever sites are added in the meantime.
C31_ActiveOnlyBySetActive ==
  [][NoActiveSite /\ ~NoActiveSite'
       => last'.op = "setActiveSite" /\ last'.err = "ok"]_vars

-----------------------------------------------------------------------------
(* Validation in flight, stated over FlightSpec.                            *)

\* the step in which the suspended update goes on
UpdateResumes == flight.update # <<>> /\ flight'.update = <<>>

-----------------------------------------------------------------------------
(* Failed writes, stated over DiskSpec.                                     *)

\* C33: if writing the backing store fails during add, update, remove or
\* setActive, the call reports an error and the in-memory registry and the
\* active pointer are left exactly as they were before the call.
C33_FailedWriteLeavesMemory ==
  [][last.op = "none" /\ last'.err = "SaveFailed"
       => sites' = sites /\ activeSiteId' = activeSiteId]_vars

-----------------------------------------------------------------------------
(* Requests in flight in the HTTP transport, stated over HttpSpec.          *)

\* the entry of request r is filed in the pending-request table
Filed(table, r) == \E id \in DOMAIN table : table[id] = r

\* the step settles request r: a response resolves it or its timer rejects it
SettlesRequest(r) ==
  http.requests[r].status = "pending" /\ http'.requests[r].status # "pending"

\* C34: two in-flight requests never interfere: a response resolves only the
\* request it answers, and neither a new request nor the response or the
\* timeout of one request removes the pending entry of another, also when
\* both carry the same id.
C34_NoInterference ==
  [][/\ \A q, r \in DOMAIN http.requests :
          Sends(q) /\ SettlesRequest(r) => r = q
     /\ \A r \in DOMAIN http.requests :
          /\ Filed(http.pendingRequests, r)
          /\ ~Filed(http'.pendingRequests, r)
          => SettlesRequest(r)]_vars

-----------------------------------------------------------------------------
(* The session map, stated over ProcessSpec.                                *)

\* the sessions whose connect has not failed and whose client has not gone
OpenSessions ==
  {s \in DOMAIN proc.servers \cap SessionIds :
     proc.servers[s].connected /\ s \notin proc.closed}

C36_AccountSiteServed ==
  \A s \in DOMAIN proc.servers \cap SessionIds :
    proc.servers[s].account = "found" => proc.servers[s].store = "account"

-----------------------------------------------------------------------------
(* The site objects of the responses, stated over Spec: the registry is any *)
(* reachable one and the handlers are applied to it.                        *)

\* the tools whose response carries site objects
SiteReturningTools ==
  {"list_sites", "get_site", "get_active_site", "add_site", "update_site", "select_site"}

\* the site objects in the text of a response
SitesIn(out) ==
  UNION {UNION {Range(member.value) : member \in
                  {m \in Range(out.content[i].text) : m.key \in {"site", "sites"}}} :
           i \in DOMAIN out.content}

\* the same store with other values for the secrets it holds
OtherSecret(value, other) == IF value = Undefined THEN Undefined ELSE other

OtherSecrets(st) ==
  [st EXCEPT !.sites =
     [i \in DOMAIN st.sites |->
        [st.sites[i] EXCEPT !.applicationPassword = OtherSecret(@, "pass2"),
                            !.consumerSecret = OtherSecret(@, "cs2")]]]

\* C37: unless includeCredentials is true, the site objects returned by
\* list_sites, get_site, get_active_site, add_site, update_site and
\* select_site carry neither applicationPassword nor consumerSecret, and two
\* stores that differ only in those secrets yield the same response.
C37_NoSecretReturned ==
  \A name \in SiteReturningTools :
    \A args \in {a \in ToolInputs(name, sites) : a.includeCredentials # TRUE} :
      \A backendOk \in BackendOutcomes(name \in UsesBackend) :
        LET out == Handler(name, Store, args, backendOk).out
        IN /\ \A site \in SitesIn(out) :
                /\ site.applicationPassword = Undefined
                /\ site.consumerSecret = Undefined
           /\ Handler(name, OtherSecrets(Store), args, backendOk).out = out

\* C38: every stored site record has a non-empty name and a non-empty url,
\* whatever patches were applied to it.
C38_NameAndUrlKept ==
  \A i \in DOMAIN sites : ~Falsy(sites[i].name) /\ ~FalsyUrl(sites[i].url)

-----------------------------------------------------------------------------
(* The totals of a listing, stated over ClientSpec.                         *)

\* C39: the success envelope of list_posts and of list_pages reports total
\* and total_pages equal to the X-WP-Total and X-WP-TotalPages headers of
\* the backend response that produced the listed items.
C39_TotalsFromHeaders ==
  \A i \in DOMAIN client.listed :
    client.listed[i].status = "success"
      => /\ client.listed[i].total = ParseInt(client.listed[i].backend["X-WP-Total"])
         /\ client.listed[i].total_pages =
              ParseInt(client.listed[i].backend["X-WP-TotalPages"])

====
